---- MODULE Spec2Model ----
(***************************************************************************)
(* OS-TUI: the navigation state machine (internal/ui/app.go) with its      *)
(* child views, the seven-way fan-out of the topology view and the         *)
(* sub-fetch sequence of the focal-resource graph builders.                *)
(*                                                                         *)
(* The root model is a value (func (m AppModel) Update(msg) (Model, Cmd)), *)
(* so it is one record variable m and Update is an operator returning the  *)
(* new record, the commands it issues and whether the program ends.        *)
(* A command is an asynchronous function whose message is delivered back   *)
(* into the event loop later: it sits in the bag inflight until then.      *)
(* Spinner ticks only animate the spinner and are left out.                *)
(***************************************************************************)
EXTENDS Bags, FiniteSets, Integers, Sequences, TLC

VARIABLES
    m,          \* the AppModel
    inflight,   \* bag of the commands that are running
    run,        \* "running", "quit" or "panic"
    last,       \* (ghost) the event the last turn of the event loop processed
    fetches,    \* buildTopology: the seven fetch goroutines
    errChan,    \* buildTopology: the buffered error channel
    wg,         \* buildTopology: the wait group counter
    result,     \* buildTopology: what the call returned, NoResult before
    topo,       \* the TopologyModel whose Init runs buildTopology
    build,      \* buildGraph: the provider's answers, the calls made so far
                \* and in flight, and what the call returned
    tree,       \* the topology tree: the fetched snapshot and what each run drew
    search,     \* the SearchModel, its commands that are running and (ghost)
                \* the event its last Update processed
    cache       \* the Cache, the clock and the calls in progress on it

appVars == <<m, inflight, run, last>>

topoVars == <<fetches, errChan, wg, result, topo>>

vars == <<m, inflight, run, last, fetches, errChan, wg, result, topo, build, tree,
          search, cache>>

\* ---------------------------------------------------------------- bounds
NumRows == 2
MaxInFlight == 2
MaxCmdLen == 2
MaxItems == 2

\* How many times the topology tree is drawn from one snapshot.
MaxRuns == 2

\* How many minutes pass on the clock of the cache.
MaxTime == 3

\* ------------------------------------------------------ program constants
stateSidebar == "sidebar"
stateMain == "main"
stateHelp == "help"
stateCloudSelect == "cloudSelect"
stateDetail == "detail"
stateLogs == "logs"
stateCommand == "command"
stateShell == "shell"
stateGraph == "graph"

DefaultViewportWidth == 80
DefaultListWidth == 120
ResizeWidths == {100}

Nil == [type |-> "nil"]

\* Sidebar entries (a representative of every way the Enter switch treats
\* an entry: a section header, sections with a list child, a section the
\* switch has no case for, and Exit).
SidebarItems == {"=== COMPUTE ===", "Servers", "Networks", "Subnets", "Routers",
                 "Floating IPs", "Load Balancers", "Volumes", "Snapshots",
                 "Token", "Exit"}

\* Command names as rune sequences, in sort.Strings order.
cmdLb == <<"l", "b">>
cmdQuit == <<"q", "u", "i", "t">>
cmdRt == <<"r", "t">>
cmdSrv == <<"s", "r", "v">>
cmdToken == <<"t", "o", "k", "e", "n">>

SortedCommands == <<cmdLb, cmdQuit, cmdRt, cmdSrv, cmdToken>>

commandMap(c) ==
    CASE c = cmdLb -> "Load Balancers"
      [] c = cmdQuit -> "__quit__"
      [] c = cmdRt -> "Routers"
      [] c = cmdSrv -> "Servers"
      [] c = cmdToken -> "Token"
      [] OTHER -> ""

InCommandMap(c) == \E i \in 1..Len(SortedCommands) : SortedCommands[i] = c

\* Runes the user types into the command bar.
Runes == {"r", "t", "l", "b", "!"}

\* Keys that are not runes of the command bar.
ControlKeys == {"q", "ctrl+c", "?", "esc", "c", ":", "g", "enter", "tab", "j", "k",
                "l", "T", "backspace"}

\* ------------------------------------------------------------- commands
NoCmd == EmptyBag

Cmd(type, kind, id) ==
    SetToBag({[type |-> type, kind |-> kind, id |-> id, stale |-> FALSE]})

\* Ghost bookkeeping: the commands issued by a child that is discarded
\* (its slot overwritten or set to nil) are marked stale.
Orphan(B, types) ==
    LET S == BagToSet(B)
        Mark(x) == IF x.type \in types THEN [x EXCEPT !.stale = TRUE] ELSE x
        T == {Mark(x) : x \in S}
        Fresh(y) == [y EXCEPT !.stale = FALSE]
    IN [y \in T |->
          (IF y \in S THEN B[y] ELSE 0)
          + (IF y.stale /\ y.type \in types /\ Fresh(y) \in S THEN B[Fresh(y)] ELSE 0)]

\* ------------------------------------------------------------ children
NewListModel(section) ==
    [type |-> "list", section |-> section, loading |-> TRUE, err |-> FALSE,
     cursor |-> 0, w |-> DefaultListWidth]

NewDetailModel(kind, id) ==
    [type |-> "detail", kind |-> kind, id |-> id, loading |-> TRUE,
     err |-> FALSE, data |-> 0, showGraph |-> FALSE, graphModel |-> Nil,
     w |-> 0]

\* The resourceName a graph child is given: "name" is the display name of
\* the resource, "id" its ID, "" the empty string.
NewGraphModel(rt, id, name) ==
    [type |-> "graph", rt |-> rt, id |-> id, name |-> name, loading |-> TRUE,
     err |-> FALSE, content |-> <<>>, w |-> DefaultViewportWidth]

NewServerGraphModel(id, name) ==
    [type |-> "sgraph", id |-> id, name |-> name, loading |-> TRUE,
     err |-> FALSE, content |-> <<>>, w |-> DefaultViewportWidth]

NewShellModel(command) ==
    [type |-> "shell", command |-> command, loading |-> TRUE,
     w |-> DefaultViewportWidth]

NewLogsModel(id) ==
    [type |-> "logs", id |-> id, err |-> FALSE, w |-> 0]

NewAppModel ==
    [state |-> stateSidebar, prevState |-> "", width |-> 0,
     mainModel |-> Nil, detailModel |-> Nil, graphModel |-> Nil,
     logsModel |-> Nil, shellModel |-> Nil, cloudList |-> "",
     commandBar |-> <<>>, tabMatches |-> <<>>, tabIndex |-> 0]

\* --------------------------------------------------------------- events
KeyEv(k, sel, clouds) == [kind |-> "key", key |-> k, sel |-> sel, clouds |-> clouds]

SizeEv(w) == [kind |-> "size", w |-> w]

\* The message a finished command delivers; ok is the outcome of its fetch.
MsgEv(c, ok) ==
    [kind |-> "msg", type |-> c.type, rk |-> c.kind, id |-> c.id, ok |-> ok,
     stale |-> c.stale]

CR(child, c) == [m |-> child, c |-> c]

Min(a, b) == IF a < b THEN a ELSE b

Max(a, b) == IF a > b THEN a ELSE b

\* A list child (InstancesModel and its siblings): the data message of its
\* own type ends loading; keys move the table cursor once it is loaded.
ListUpdate(l, ev) ==
    CASE ev.kind = "msg" /\ ev.type = "list" /\ ev.rk = l.section ->
            IF ~ev.ok
            THEN CR([l EXCEPT !.loading = FALSE, !.err = TRUE], NoCmd)
            ELSE CR([l EXCEPT !.loading = FALSE, !.cursor = 1], NoCmd)
      [] ev.kind = "size" -> CR([l EXCEPT !.w = ev.w], NoCmd)
      [] ev.kind = "key" ->
            IF l.loading \/ l.err THEN CR(l, NoCmd)
            ELSE IF ev.key = "j" THEN CR([l EXCEPT !.cursor = Min(l.cursor + 1, NumRows)], NoCmd)
            ELSE IF ev.key = "k" THEN CR([l EXCEPT !.cursor = Max(l.cursor - 1, 1)], NoCmd)
            ELSE CR(l, NoCmd)
      [] OTHER -> CR(l, NoCmd)

\* Table().SelectedRow() of a list child: the row under the cursor, 0 when
\* the table has no rows (still loading, or the load failed).
SelectedRow(l) == IF l.loading \/ l.err THEN 0 ELSE l.cursor

\* (mutant) a failed build is started again.
ServerGraphUpdateRetries(g, ev) ==
    CASE ev.kind = "msg" /\ ev.type = "sgraph" ->
            CR([g EXCEPT !.loading = FALSE, !.err = ~ev.ok,
                         !.content = IF ev.ok THEN <<"server", ev.id>> ELSE <<>>],
               IF ev.ok THEN NoCmd ELSE Cmd("sgraph", "server", g.id))
      [] ev.kind = "size" -> CR([g EXCEPT !.w = ev.w], NoCmd)
      [] ev.kind = "key" ->
            IF ev.key \in {"g", "esc"} THEN CR(g, Cmd("GoBackMsg", "", 0))
            ELSE CR(g, NoCmd)
      [] OTHER -> CR(g, NoCmd)

\* ServerGraphModel.Update
ServerGraphUpdate(g, ev) ==
    CASE ev.kind = "msg" /\ ev.type = "sgraph" ->
            CR([g EXCEPT !.loading = FALSE, !.err = ~ev.ok,
                         !.content = IF ev.ok THEN <<"server", ev.id>> ELSE <<>>], NoCmd)
      [] ev.kind = "size" -> CR([g EXCEPT !.w = ev.w], NoCmd)
      [] ev.kind = "key" ->
            IF ev.key \in {"g", "esc"} THEN CR(g, Cmd("GoBackMsg", "", 0))
            ELSE CR(g, NoCmd)
      [] OTHER -> CR(g, NoCmd)

\* InstanceDetailModel.Update and the Update of the other detail children.
\* Of the keys only g ever reaches a detail child (app.go forwards no other
\* key in the detail state), so the inspect, JSON and console sub-views of
\* the server detail cannot open and are not modelled.
DetailUpdate(d, ev) ==
    IF d.kind = "InstanceDetailModel" /\ d.showGraph /\ d.graphModel # Nil
    THEN LET r == ServerGraphUpdate(d.graphModel, ev)
         IN CR([d EXCEPT !.graphModel = r.m], r.c)
    ELSE CASE ev.kind = "msg" /\ ev.type = "detail" /\ ev.rk = d.kind ->
                 IF ~ev.ok
                 THEN CR([d EXCEPT !.loading = FALSE, !.err = TRUE], NoCmd)
                 ELSE CR([d EXCEPT !.loading = FALSE, !.data = ev.id], NoCmd)
           [] ev.kind = "size" ->
                 IF d.loading THEN CR(d, NoCmd) ELSE CR([d EXCEPT !.w = ev.w], NoCmd)
           [] ev.kind = "key" /\ d.kind = "InstanceDetailModel" ->
                 IF d.loading \/ d.err THEN CR(d, NoCmd)
                 ELSE IF ev.key = "l" THEN CR(d, Cmd("OpenLogsMsg", "", d.id))
                 ELSE IF ev.key = "g"
                      THEN CR([d EXCEPT !.showGraph = TRUE,
                                        !.graphModel = IF d.graphModel = Nil
                                                       THEN NewServerGraphModel(d.id, "name")
                                                       ELSE d.graphModel],
                              Cmd("sgraph", "server", d.id))
                 ELSE CR(d, NoCmd)
           [] ev.kind = "msg" /\ ev.type = "GoBackMsg" /\ d.kind = "InstanceDetailModel" ->
                 CR([d EXCEPT !.showGraph = FALSE, !.graphModel = Nil], NoCmd)
           [] OTHER -> CR(d, NoCmd)

\* GraphModel.Update: a graphDataMsg carries no identity of the GraphModel
\* whose Init produced it.
GraphUpdate(g, ev) ==
    CASE ev.kind = "msg" /\ ev.type = "graph" ->
            CR([g EXCEPT !.loading = FALSE, !.err = FALSE,
                         !.content = <<ev.rk, ev.id>>], NoCmd)
      [] ev.kind = "size" -> CR([g EXCEPT !.w = ev.w], NoCmd)
      [] ev.kind = "key" ->
            IF ev.key \in {"g", "esc"} THEN CR(g, Cmd("GoBackMsg", "", 0))
            ELSE CR(g, NoCmd)
      [] OTHER -> CR(g, NoCmd)

\* ShellModel.Update
ShellUpdate(s, ev) ==
    CASE ev.kind = "msg" /\ ev.type = "shell" -> CR([s EXCEPT !.loading = FALSE], NoCmd)
      [] ev.kind = "size" -> CR([s EXCEPT !.w = ev.w], NoCmd)
      [] ev.kind = "key" ->
            IF ev.key \in {"q", "esc"} THEN CR(s, Cmd("CloseMsg", "", 0))
            ELSE CR(s, NoCmd)
      [] OTHER -> CR(s, NoCmd)

\* LogsModel.Init: the first fetch of the log and the first tick.
LogsInit(id) == Cmd("logs", "", id) (+) Cmd("logTick", "", id)

\* LogsModel.Update: a log chunk gives a viewport of width 0 the default
\* width; a tick fetches the log again and schedules the next tick.
LogsUpdate(l, ev) ==
    CASE ev.kind = "msg" /\ ev.type = "logs" ->
            CR([l EXCEPT !.err = ~ev.ok,
                         !.w = IF l.w = 0 THEN DefaultViewportWidth ELSE l.w], NoCmd)
      [] ev.kind = "msg" /\ ev.type = "logTick" -> CR(l, LogsInit(l.id))
      [] ev.kind = "size" ->
            CR([l EXCEPT !.w = IF ev.w = 0 THEN DefaultViewportWidth ELSE ev.w], NoCmd)
      [] ev.kind = "key" /\ ev.key = "esc" -> CR(l, Cmd("GoBackMsg", "", 0))
      [] OTHER -> CR(l, NoCmd)

\* What a View shows: the spinner, an error message or the content.
Shows(kind, text) == [kind |-> kind, text |-> text]

\* InstancesModel.View (and its siblings)
ListView(l) ==
    IF l.loading THEN Shows("spinner", "")
    ELSE IF l.err THEN Shows("error", "list")
    ELSE Shows("content", "table")

\* GraphModel.View
GraphView(g) ==
    IF g.loading THEN Shows("spinner", "")
    ELSE IF g.err THEN Shows("error", "graph")
    ELSE Shows("content", g.content)

\* ServerGraphModel.View
ServerGraphView(g) ==
    IF g.loading THEN Shows("spinner", "")
    ELSE IF g.err THEN Shows("error", "sgraph")
    ELSE Shows("content", g.content)

\* InstanceDetailModel.View
DetailView(d) ==
    IF d.loading THEN Shows("spinner", "")
    ELSE IF d.showGraph /\ d.graphModel # Nil THEN ServerGraphView(d.graphModel)
    ELSE IF d.err THEN Shows("error", "detail")
    ELSE Shows("content", "table")

\* ------------------------------------------------------- AppModel.Update
\* The result of Update: the new model, the commands issued, how the
\* program ends ("" while it runs, "quit" for tea.Quit, "panic" for a nil
\* dereference), and (ghost) the kinds of child that were discarded.
R(mm, c, drop) == [m |-> mm, c |-> c, end |-> "", drop |-> drop]

Quit(mm) == [m |-> mm, c |-> NoCmd, end |-> "quit", drop |-> {}]

Panic(mm) == [m |-> mm, c |-> NoCmd, end |-> "panic", drop |-> {}]

\* The list child the Enter switch of the sidebar creates for an entry;
\* Nil where the switch has no case (section headers, Subnets, Snapshots).
SidebarChild(title) ==
    IF title \in {"Servers", "Networks", "Routers", "Floating IPs",
                 "Load Balancers", "Volumes", "Token"}
    THEN NewListModel(title) ELSE Nil

\* navigateTo: the list child it creates for a section; Nil where its
\* switch has no case (Routers, Ports), which leaves mainModel as it was.
navigateTo(section) ==
    IF section \in {"Servers", "Networks", "Subnets", "Floating IPs",
                   "Load Balancers", "Volumes", "Snapshots", "Token"}
    THEN NewListModel(section) ELSE Nil

\* The detail child the Enter switch creates for a row of a list child;
\* "" where the list has no drill-down.
DetailKind(section) ==
    CASE section = "Servers" -> "InstanceDetailModel"
      [] section = "Load Balancers" -> "LoadBalancerDetailModel"
      [] section = "Routers" -> "RouterDetailModel"
      [] section = "Snapshots" -> "SnapshotDetailModel"
      [] section = "Networks" -> "NetworkSubnetsModel"
      [] section = "Subnets" -> "SubnetDetailModel"
      [] section = "Floating IPs" -> "FloatingIPDetailModel"
      [] section = "Volumes" -> "VolumeDetailModel"
      [] OTHER -> ""

\* The resource type of the g switch for a detail child; "" for default.
GraphType(kind) ==
    CASE kind = "FloatingIPDetailModel" -> "floatingip"
      [] kind = "VolumeDetailModel" -> "volume"
      [] kind = "NetworkSubnetsModel" -> "network"
      [] kind = "LoadBalancerDetailModel" -> "loadbalancer"
      [] OTHER -> ""

\* ResourceName() of the detail children of the g switch: the ID for a
\* network and a floating IP, the name of the list row for a load balancer,
\* the name of the loaded volume (empty until it is loaded) for a volume.
ResourceName(d) ==
    CASE d.kind \in {"NetworkSubnetsModel", "FloatingIPDetailModel"} -> "id"
      [] d.kind = "VolumeDetailModel" -> IF d.loading \/ d.err THEN "" ELSE "name"
      [] OTHER -> "name"

HasPrefix(s, p) == Len(p) <= Len(s) /\ SubSeq(s, 1, Len(p)) = p

RECURSIVE TrimLeft(_)
TrimLeft(s) == IF s # <<>> /\ Head(s) = " " THEN TrimLeft(Tail(s)) ELSE s

RECURSIVE TrimRight(_)
TrimRight(s) ==
    IF s # <<>> /\ s[Len(s)] = " " THEN TrimRight(SubSeq(s, 1, Len(s) - 1)) ELSE s

TrimSpace(s) == TrimRight(TrimLeft(s))

\* The matches of tab completion: the command names with the prefix, sorted.
TabMatches(prefix) == SelectSeq(SortedCommands, LAMBDA k : HasPrefix(k, prefix))

ListInit(l) == Cmd("list", l.section, 0)

\* (mutant) every Tab starts the cycle again from the text in the bar.
CommandUpdateTabRestarts(mm, ev) ==
    IF ev.kind # "key" THEN R(mm, NoCmd, {})
    ELSE CASE ev.key = "esc" ->
                R([mm EXCEPT !.state = mm.prevState, !.prevState = "",
                             !.commandBar = <<>>, !.tabMatches = <<>>, !.tabIndex = 0],
                  NoCmd, {})
           [] ev.key = "enter" ->
                LET cmd == TrimSpace(mm.commandBar)
                    reset == [mm EXCEPT !.commandBar = <<>>, !.tabMatches = <<>>, !.tabIndex = 0]
                IN IF HasPrefix(cmd, <<"!">>)
                   THEN R([reset EXCEPT !.shellModel = NewShellModel(Tail(cmd)),
                                        !.state = stateShell],
                          Cmd("shell", "", 0), {"shell"})
                   ELSE IF InCommandMap(cmd)
                   THEN IF commandMap(cmd) = "__quit__" THEN Quit(mm)
                        ELSE LET child == navigateTo(commandMap(cmd))
                                 main == IF child = Nil THEN mm.mainModel ELSE child
                             IN IF main = Nil
                                THEN Panic([mm EXCEPT !.state = stateMain])
                                ELSE R([reset EXCEPT !.mainModel = main, !.state = stateMain],
                                       ListInit(main),
                                       IF child = Nil THEN {} ELSE {"list"})
                   ELSE R(reset, NoCmd, {})
           [] ev.key = "tab" ->
                LET matches == TabMatches(TrimSpace(mm.commandBar))
                IN IF matches = <<>> THEN R(mm, NoCmd, {})
                   ELSE IF TRUE
                   THEN R([mm EXCEPT !.tabMatches = matches, !.tabIndex = 0,
                                     !.commandBar = matches[1]], NoCmd, {})
                   ELSE LET i == (mm.tabIndex + 1) % Len(mm.tabMatches)
                        IN R([mm EXCEPT !.tabIndex = i, !.commandBar = mm.tabMatches[i + 1]],
                             NoCmd, {})
           [] OTHER ->
                \* textinput.Update: a rune is appended, backspace deletes the
                \* last character, other keys leave the value
                IF ev.key \in Runes
                THEN R([mm EXCEPT !.commandBar = Append(mm.commandBar, ev.key)], NoCmd, {})
                ELSE IF ev.key = "backspace" /\ mm.commandBar # <<>>
                THEN R([mm EXCEPT !.commandBar = SubSeq(@, 1, Len(@) - 1)], NoCmd, {})
                ELSE R(mm, NoCmd, {})

\* Lines 589-671: the command state.
CommandUpdate(mm, ev) ==
    IF ev.kind # "key" THEN R(mm, NoCmd, {})
    ELSE CASE ev.key = "esc" ->
                R([mm EXCEPT !.state = mm.prevState, !.prevState = "",
                             !.commandBar = <<>>, !.tabMatches = <<>>, !.tabIndex = 0],
                  NoCmd, {})
           [] ev.key = "enter" ->
                LET cmd == TrimSpace(mm.commandBar)
                    reset == [mm EXCEPT !.commandBar = <<>>, !.tabMatches = <<>>, !.tabIndex = 0]
                IN IF HasPrefix(cmd, <<"!">>)
                   THEN R([reset EXCEPT !.shellModel = NewShellModel(Tail(cmd)),
                                        !.state = stateShell],
                          Cmd("shell", "", 0), {"shell"})
                   ELSE IF InCommandMap(cmd)
                   THEN IF commandMap(cmd) = "__quit__" THEN Quit(mm)
                        ELSE LET child == navigateTo(commandMap(cmd))
                                 main == IF child = Nil THEN mm.mainModel ELSE child
                             IN IF main = Nil
                                THEN Panic([mm EXCEPT !.state = stateMain])
                                ELSE R([reset EXCEPT !.mainModel = main, !.state = stateMain],
                                       ListInit(main),
                                       IF child = Nil THEN {} ELSE {"list"})
                   ELSE R(reset, NoCmd, {})
           [] ev.key = "tab" ->
                LET matches == TabMatches(TrimSpace(mm.commandBar))
                IN IF matches = <<>> THEN R(mm, NoCmd, {})
                   ELSE IF mm.tabMatches = <<>> \/ mm.commandBar # mm.tabMatches[mm.tabIndex + 1]
                   THEN R([mm EXCEPT !.tabMatches = matches, !.tabIndex = 0,
                                     !.commandBar = matches[1]], NoCmd, {})
                   ELSE LET i == (mm.tabIndex + 1) % Len(mm.tabMatches)
                        IN R([mm EXCEPT !.tabIndex = i, !.commandBar = mm.tabMatches[i + 1]],
                             NoCmd, {})
           [] OTHER ->
                \* textinput.Update: a rune is appended, backspace deletes the
                \* last character, other keys leave the value
                IF ev.key \in Runes
                THEN R([mm EXCEPT !.commandBar = Append(mm.commandBar, ev.key)], NoCmd, {})
                ELSE IF ev.key = "backspace" /\ mm.commandBar # <<>>
                THEN R([mm EXCEPT !.commandBar = SubSeq(@, 1, Len(@) - 1)], NoCmd, {})
                ELSE R(mm, NoCmd, {})

\* Lines 564-765: the custom messages, then the handler of the state.
Dispatch(mm, ev) ==
    IF ev.kind = "msg" /\ ev.type = "OpenLogsMsg"
    THEN R([mm EXCEPT !.logsModel = NewLogsModel(ev.id), !.state = stateLogs],
           LogsInit(ev.id), {"logs", "logTick"})
    ELSE IF ev.kind = "msg" /\ ev.type = "GoBackMsg" /\ mm.state = stateLogs
    THEN R([mm EXCEPT !.state = stateDetail, !.logsModel = Nil], NoCmd, {"logs"})
    ELSE IF ev.kind = "msg" /\ ev.type = "GoBackMsg" /\ mm.state = stateDetail
            /\ mm.detailModel # Nil
    THEN LET r == DetailUpdate(mm.detailModel, ev)
         IN R([mm EXCEPT !.detailModel = r.m], r.c,
              IF r.m.graphModel = Nil /\ mm.detailModel.graphModel # Nil
              THEN {"sgraph"} ELSE {})
    ELSE IF ev.kind = "msg" /\ ev.type = "GoBackMsg" /\ mm.state = stateGraph
    THEN R([mm EXCEPT !.state = stateDetail, !.graphModel = Nil], NoCmd, {"graph"})
    ELSE IF ev.kind = "msg" /\ ev.type = "CloseMsg"
    THEN R([mm EXCEPT !.state = stateSidebar, !.shellModel = Nil], NoCmd, {"shell"})
    ELSE IF mm.state = stateCommand THEN CommandUpdate(mm, ev)
    ELSE IF mm.state = stateSidebar THEN R(mm, NoCmd, {})
    ELSE IF mm.state = stateCloudSelect
    THEN IF ev.kind = "key" /\ ev.key = "enter" /\ mm.cloudList = "items"
         THEN R([mm EXCEPT !.state = stateSidebar], NoCmd, {})
         ELSE R(mm, NoCmd, {})
    ELSE IF mm.state = stateMain /\ mm.mainModel # Nil
    THEN LET r == ListUpdate(mm.mainModel, ev)
         IN R([mm EXCEPT !.mainModel = r.m], r.c, {})
    ELSE IF mm.state = stateDetail /\ mm.detailModel # Nil /\ ev.kind # "key"
    THEN LET r == DetailUpdate(mm.detailModel, ev)
         IN R([mm EXCEPT !.detailModel = r.m], r.c, {})
    ELSE IF mm.state = stateGraph /\ mm.graphModel # Nil
    THEN LET r == GraphUpdate(mm.graphModel, ev)
         IN R([mm EXCEPT !.graphModel = r.m], r.c, {})
    ELSE IF mm.state = stateShell /\ mm.shellModel # Nil
    THEN LET r == ShellUpdate(mm.shellModel, ev)
         IN R([mm EXCEPT !.shellModel = r.m], r.c, {})
    ELSE IF mm.state = stateLogs /\ mm.logsModel # Nil
    THEN LET r == LogsUpdate(mm.logsModel, ev)
         IN R([mm EXCEPT !.logsModel = r.m], r.c, {})
    ELSE R(mm, NoCmd, {})

\* (mutant) Esc has no case for the help state and closes it to the sidebar.
EscUpdateNoHistory(mm, ev) ==
    IF mm.state = stateDetail
    THEN R([mm EXCEPT !.state = stateMain], NoCmd, {})
    ELSE IF mm.state # stateSidebar
    THEN R([mm EXCEPT !.state = stateSidebar, !.mainModel = Nil], NoCmd,
           IF mm.mainModel # Nil THEN {"list"} ELSE {})
    ELSE Dispatch(mm, ev)

\* (mutant) Esc is ignored while the list or detail child shows an error.
EscUpdateBlockedByError(mm, ev) ==
    IF \/ (mm.state = stateMain /\ mm.mainModel # Nil /\ mm.mainModel.err)
       \/ (mm.state = stateDetail /\ mm.detailModel # Nil /\ mm.detailModel.err)
    THEN R(mm, NoCmd, {})
    ELSE IF mm.state = stateHelp
    THEN R([mm EXCEPT !.state = mm.prevState, !.prevState = ""], NoCmd, {})
    ELSE IF mm.state = stateDetail
    THEN R([mm EXCEPT !.state = stateMain], NoCmd, {})
    ELSE IF mm.state # stateSidebar
    THEN R([mm EXCEPT !.state = stateSidebar, !.mainModel = Nil], NoCmd,
           IF mm.mainModel # Nil THEN {"list"} ELSE {})
    ELSE Dispatch(mm, ev)

\* Lines 264-281: Esc.
EscUpdate(mm, ev) ==
    IF mm.state = stateHelp
    THEN R([mm EXCEPT !.state = mm.prevState, !.prevState = ""], NoCmd, {})
    ELSE IF mm.state = stateDetail
    THEN R([mm EXCEPT !.state = stateMain], NoCmd, {})
    ELSE IF mm.state # stateSidebar
    THEN R([mm EXCEPT !.state = stateSidebar, !.mainModel = Nil], NoCmd,
           IF mm.mainModel # Nil THEN {"list"} ELSE {})
    ELSE Dispatch(mm, ev)

\* Lines 310-352: g.
GUpdate(mm, ev) ==
    IF mm.state = stateDetail /\ mm.detailModel # Nil
    THEN IF mm.detailModel.kind = "InstanceDetailModel" /\ mm.detailModel.showGraph
         THEN LET r == DetailUpdate(mm.detailModel, ev)
              IN R([mm EXCEPT !.detailModel = r.m], r.c, {})
         ELSE IF GraphType(mm.detailModel.kind) # ""
         THEN R([mm EXCEPT !.graphModel = NewGraphModel(GraphType(mm.detailModel.kind),
                                                         mm.detailModel.id,
                                                         ResourceName(mm.detailModel)),
                           !.state = stateGraph],
                Cmd("graph", GraphType(mm.detailModel.kind), mm.detailModel.id),
                {"graph"})
         ELSE LET r == DetailUpdate(mm.detailModel, ev)
              IN R([mm EXCEPT !.detailModel = r.m], r.c, {})
    ELSE Dispatch(mm, ev)

\* Lines 354-562: Enter.
EnterUpdate(mm, ev) ==
    IF mm.state = stateSidebar
    THEN IF ev.sel = "Exit" THEN Quit(mm)
         ELSE LET child == SidebarChild(ev.sel)
                  main == IF child = Nil THEN mm.mainModel ELSE child
                  m1 == [mm EXCEPT !.state = stateMain, !.mainModel = main]
              IN IF main # Nil
                 THEN R(m1, ListInit(main), IF child = Nil THEN {} ELSE {"list"})
                 ELSE R(m1, NoCmd, {})
    ELSE IF mm.state = stateMain /\ mm.mainModel # Nil
            /\ DetailKind(mm.mainModel.section) # ""
            /\ SelectedRow(mm.mainModel) > 0
    THEN R([mm EXCEPT !.detailModel = NewDetailModel(DetailKind(mm.mainModel.section),
                                                     SelectedRow(mm.mainModel)),
                      !.state = stateDetail],
           Cmd("detail", DetailKind(mm.mainModel.section), SelectedRow(mm.mainModel)),
           {"detail", "sgraph"})
    ELSE Dispatch(mm, ev)

\* (mutant) c opens the cloud list from the sidebar state only.
CUpdateFromSidebarOnly(mm, ev) ==
    IF ev.clouds = "err" \/ mm.state # stateSidebar THEN R(mm, NoCmd, {})
    ELSE R([mm EXCEPT !.cloudList = ev.clouds, !.state = stateCloudSelect], NoCmd, {})

\* Lines 282-302: c. LoadCloudsYAML fails ("err") or gives the clouds of the
\* file, none ("empty") or some ("items"), which become the cloud list.
CUpdate(mm, ev) ==
    IF ev.clouds = "err" THEN R(mm, NoCmd, {})
    ELSE R([mm EXCEPT !.cloudList = ev.clouds, !.state = stateCloudSelect], NoCmd, {})

\* (mutant) in the command state q and ctrl+c go to the command bar.
KeyUpdateQuitOutsideCommand(mm, ev) ==
    CASE ev.key \in {"ctrl+c", "q"} /\ mm.state # stateCommand -> Quit(mm)
      [] ev.key = "?" ->
            IF mm.state # stateHelp
            THEN Dispatch([mm EXCEPT !.prevState = mm.state, !.state = stateHelp], ev)
            ELSE Dispatch(mm, ev)
      [] ev.key = "esc" -> EscUpdate(mm, ev)
      [] ev.key = "c" -> CUpdate(mm, ev)
      [] ev.key = ":" ->
            R([mm EXCEPT !.prevState = mm.state, !.state = stateCommand,
                         !.commandBar = <<>>], NoCmd, {})
      [] ev.key = "g" -> GUpdate(mm, ev)
      [] ev.key = "enter" -> EnterUpdate(mm, ev)
      [] OTHER -> Dispatch(mm, ev)

\* Lines 255-563: a key press.
KeyUpdate(mm, ev) ==
    CASE ev.key \in {"ctrl+c", "q"} -> Quit(mm)
      [] ev.key = "?" ->
            IF mm.state # stateHelp
            THEN Dispatch([mm EXCEPT !.prevState = mm.state, !.state = stateHelp], ev)
            ELSE Dispatch(mm, ev)
      [] ev.key = "esc" -> EscUpdate(mm, ev)
      [] ev.key = "c" -> CUpdate(mm, ev)
      [] ev.key = ":" ->
            R([mm EXCEPT !.prevState = mm.state, !.state = stateCommand,
                         !.commandBar = <<>>], NoCmd, {})
      [] ev.key = "g" -> GUpdate(mm, ev)
      [] ev.key = "enter" -> EnterUpdate(mm, ev)
      [] OTHER -> Dispatch(mm, ev)

\* (mutant) the type assertion on the shell child's new model fails and the
\* shell child is dropped.
SizeUpdateDropsShell(mm, ev) ==
    LET m1 == [mm EXCEPT !.width = ev.w]
        m2 == IF m1.mainModel # Nil
              THEN [m1 EXCEPT !.mainModel = ListUpdate(m1.mainModel, ev).m] ELSE m1
        m3 == IF m2.state = stateLogs /\ m2.logsModel # Nil
              THEN [m2 EXCEPT !.logsModel = LogsUpdate(m2.logsModel, ev).m] ELSE m2
        m4 == IF m3.state = stateShell /\ m3.shellModel # Nil
              THEN [m3 EXCEPT !.shellModel = Nil] ELSE m3
    IN R(m4, NoCmd, {})

\* Lines 227-254: a resize goes to the list child whatever the state, and to
\* the logs and shell children in their states.
SizeUpdate(mm, ev) ==
    LET m1 == [mm EXCEPT !.width = ev.w]
        m2 == IF m1.mainModel # Nil
              THEN [m1 EXCEPT !.mainModel = ListUpdate(m1.mainModel, ev).m] ELSE m1
        m3 == IF m2.state = stateLogs /\ m2.logsModel # Nil
              THEN [m2 EXCEPT !.logsModel = LogsUpdate(m2.logsModel, ev).m] ELSE m2
        m4 == IF m3.state = stateShell /\ m3.shellModel # Nil
              THEN [m3 EXCEPT !.shellModel = ShellUpdate(m3.shellModel, ev).m] ELSE m3
    IN R(m4, NoCmd, {})

Update(mm, ev) ==
    CASE ev.kind = "size" -> SizeUpdate(mm, ev)
      [] ev.kind = "key" -> KeyUpdate(mm, ev)
      [] OTHER -> Dispatch(mm, ev)

\* ------------------------------------------------------- the event loop
Running == run = "running"

\* One turn of the event loop: Update is applied to the event, the commands
\* it returns start running, and tea.Quit or a panic ends the program.
Step(ev, rest) ==
    LET r == Update(m, ev)
    IN /\ BagCardinality(rest (+) r.c) <= MaxInFlight
       /\ m' = r.m
       /\ inflight' = IF r.end = "" THEN Orphan(rest, r.drop) (+) r.c ELSE rest
       /\ run' = IF r.end = "" THEN "running" ELSE r.end
       /\ last' = [kind |-> ev.kind,
                   name |-> IF ev.kind = "key" THEN ev.key
                            ELSE IF ev.kind = "msg" THEN ev.type ELSE "",
                   stale |-> IF ev.kind = "msg" THEN ev.stale ELSE FALSE,
                   ok |-> IF ev.kind = "msg" THEN ev.ok
                          ELSE IF ev.kind = "key" THEN ev.clouds # "err" ELSE TRUE,
                   sel |-> IF ev.kind = "key" THEN ev.sel ELSE ""]
       /\ UNCHANGED <<topoVars, build, tree, search, cache>>

\* A key press, drawn from the set K of keys the user has.
KeyMsg(K) ==
    /\ Running
    /\ \E k \in K \ {"enter"} :
          /\ (k \in Runes /\ m.state = stateCommand) => Len(m.commandBar) < MaxCmdLen
          /\ \E clouds \in (IF k = "c" THEN {"err", "empty", "items"} ELSE {""}) :
                Step(KeyEv(k, "", clouds), inflight)

\* Enter; in the sidebar state the bubbles list decides the selected entry.
KeyEnter(Items) ==
    /\ Running
    /\ \E sel \in (IF m.state = stateSidebar THEN Items ELSE {""}) :
          Step(KeyEv("enter", sel, ""), inflight)

WindowSizeMsg ==
    /\ Running
    /\ \E w \in ResizeWidths : Step(SizeEv(w), inflight)

\* A command finishes and its message is delivered, with an outcome the
\* provider can give.  GraphModel.buildGraph and the synchronous messages
\* have no failing outcome.
Deliver(Outcomes) ==
    /\ Running
    /\ \E c \in BagToSet(inflight) : \E ok \in Outcomes :
          /\ ok \/ c.type \in {"list", "detail", "sgraph", "shell", "logs"}
          /\ Step(MsgEv(c, ok), inflight (-) SetToBag({c}))

\* ------------------------------------- TopologyModel.buildTopology
Fetches == {"instances", "networks", "subnets", "ports", "floating IPs",
            "volumes", "routers"}

NumFetches == 7

NoResult == [content |-> "", err |-> "", returned |-> FALSE]

\* A provider call returns, with or without an error.
FetchReturn(f, failed) ==
    /\ fetches[f].pc = "call"
    /\ fetches' = [fetches EXCEPT ![f] = [pc |-> "returned", failed |-> failed]]
    /\ UNCHANGED <<errChan, wg, result, topo, appVars, build, tree, search, cache>>

\* (mutant) the error channel has room for one error.
FetchExitSmallBuffer(f) ==
    /\ fetches[f].pc = "returned"
    /\ fetches[f].failed => Len(errChan) < 1
    /\ errChan' = IF fetches[f].failed THEN Append(errChan, f) ELSE errChan
    /\ wg' = wg - 1
    /\ fetches' = [fetches EXCEPT ![f].pc = "done"]
    /\ UNCHANGED <<result, topo, appVars, build, tree, search, cache>>

\* The rest of the goroutine: the error, if any, is sent on the channel
\* (it blocks while the buffer is full) and the deferred wg.Done runs.
FetchExit(f) ==
    /\ fetches[f].pc = "returned"
    /\ fetches[f].failed => Len(errChan) < NumFetches
    /\ errChan' = IF fetches[f].failed THEN Append(errChan, f) ELSE errChan
    /\ wg' = wg - 1
    /\ fetches' = [fetches EXCEPT ![f].pc = "done"]
    /\ UNCHANGED <<result, topo, appVars, build, tree, search, cache>>

\* (mutant) the wait also ends at the first error on the channel.
WaitDoneOrFirstError == wg = 0 \/ errChan # <<>>

\* wg.Wait() returns.
WaitDone == wg = 0

\* (mutant) the text is built from whatever was fetched, beside the error.
TopologyResultPartial(ch) ==
    [content |-> "topology", err |-> IF ch # <<>> THEN Head(ch) ELSE "",
     returned |-> TRUE]

\* Lines 123-128 and the rest of the function: the first error in the
\* channel is returned with no content, otherwise the text is built.
TopologyResult(ch) ==
    IF ch # <<>>
    THEN [content |-> "", err |-> Head(ch), returned |-> TRUE]
    ELSE [content |-> "topology", err |-> "", returned |-> TRUE]

Join ==
    /\ ~result.returned
    /\ WaitDone
    /\ result' = TopologyResult(errChan)
    /\ UNCHANGED <<fetches, errChan, wg, topo, appVars, build, tree, search, cache>>

\* NewTopologyModel
NewTopologyModel ==
    [type |-> "topology", loading |-> TRUE, err |-> "", content |-> "",
     w |-> DefaultViewportWidth]

\* TopologyModel.Update for the topologyDataMsg of its Init.
TopologyUpdate(t, res) ==
    [t EXCEPT !.loading = FALSE, !.content = res.content, !.err = res.err]

\* TopologyModel.View: the spinner while loading, otherwise the viewport
\* between a header and a footer.
TopologyView(t) ==
    IF t.loading THEN Shows("spinner", "") ELSE Shows("content", t.content)

\* The command of TopologyModel.Init finishes and its topologyDataMsg is
\* delivered to the TopologyModel.
TopologyDataMsg ==
    /\ result.returned
    /\ topo.loading
    /\ topo' = TopologyUpdate(topo, result)
    /\ UNCHANGED <<fetches, errChan, wg, result, appVars, build, tree, search, cache>>

\* ------------------------------------------------------- buildGraph
\* The provider's answer to a call: Err, or the number of items returned.
Err == -1

Answers == {Err} \cup (0..MaxItems)

maxPorts == 8

NetworkPortCap == 5

\* Lengths of a port list around the caps of the two builders.
PortAnswers == Answers \cup {NetworkPortCap, NetworkPortCap + 1, maxPorts, maxPorts + 1, 12}

\* The width the stacking test counts for a separator, and the width of
\* the separator " -- " the horizontal layout draws.
SeparatorApprox == 3

SeparatorWidth == 4

\* Rendered widths of the server box and of the widest box of a column.
CenterWidths == 8..12

BoxWidths == {16, 20}

NoAnswers ==
    [model |-> "GraphModel", rt |-> "", ifaces |-> 0, vols |-> 0, fips |-> 0,
     net |-> 1, ports |-> 0, vol |-> 0, inst |-> 1, hasLB |-> TRUE,
     listeners |-> 0, pools |-> 0, centerW |-> 8, boxW |-> 16]

\* The provider answers a build can meet: the calls the focal kind does
\* not reach keep their default answer.
BuildInputs ==
    {[NoAnswers EXCEPT !.model = md, !.rt = "server", !.ifaces = i, !.vols = v,
                       !.fips = f, !.net = n] :
        md \in {"GraphModel", "ServerGraphModel"}, i \in PortAnswers, v \in Answers,
        f \in {Err, 0, 1}, n \in {Err, 1}}
    \cup {[NoAnswers EXCEPT !.model = "ServerGraphModel", !.rt = "server",
                            !.ifaces = i, !.fips = f, !.net = n,
                            !.centerW = c, !.boxW = b] :
            i \in 0..MaxItems, f \in {0, 1}, n \in {Err, 1},
            c \in CenterWidths, b \in BoxWidths}
    \cup {[NoAnswers EXCEPT !.rt = "network", !.ports = p] : p \in PortAnswers}
    \cup {[NoAnswers EXCEPT !.rt = "volume", !.vol = v, !.inst = n] :
            v \in Answers, n \in {Err, 1}}
    \cup {[NoAnswers EXCEPT !.rt = "loadbalancer", !.hasLB = h, !.listeners = l,
                            !.pools = q] :
            h \in BOOLEAN, l \in Answers, q \in Answers}
    \cup {[NoAnswers EXCEPT !.rt = r] : r \in {"floatingip", "router"}}

NoBoxes ==
    [center |-> "", ports |-> 0, more |-> 0, nets |-> 0, fips |-> 0, vols |-> 0,
     servers |-> 0, listeners |-> 0, pools |-> 0, stacked |-> FALSE]

NoOutput == [content |-> NoBoxes, err |-> FALSE, calls |-> <<>>]

Repeat(x, n) == [i \in 1..n |-> x]

Count(a) == IF a = Err THEN 0 ELSE a

\* GraphModel.buildGraph: the boxes of the content, the error returned
\* (always nil) and the provider calls made.
GraphBuildGraph(in) ==
    CASE in.rt = "server" ->
            LET ok == in.ifaces # Err /\ in.ifaces > 0
                n == Count(in.ifaces)
            IN [content |-> [NoBoxes EXCEPT !.center = "Server",
                                 !.ports = IF ok THEN n ELSE 0,
                                 !.nets = IF ok /\ in.net # Err THEN n ELSE 0,
                                 !.fips = IF ok THEN Min(Count(in.fips), n) ELSE 0,
                                 !.vols = Count(in.vols)],
                err |-> FALSE,
                calls |-> <<"ListServerInterfaces">>
                          \o (IF ok THEN <<"ListFloatingIPs">> \o Repeat("GetNetwork", n)
                              ELSE <<>>)
                          \o <<"ListServerVolumes">>]
      [] in.rt = "network" ->
            [content |-> [NoBoxes EXCEPT !.center = "Network",
                                 !.ports = Min(NetworkPortCap, Count(in.ports))],
             err |-> FALSE,
             calls |-> <<"ListPortsByNetwork">>]
      [] in.rt = "volume" ->
            [content |-> [NoBoxes EXCEPT !.center = "Volume",
                                 !.servers = IF in.inst # Err THEN Count(in.vol) ELSE 0],
             err |-> FALSE,
             calls |-> <<"GetVolume">> \o Repeat("GetInstance", Count(in.vol))]
      [] in.rt = "floatingip" ->
            [content |-> [NoBoxes EXCEPT !.center = "FloatingIP"], err |-> FALSE,
             calls |-> <<>>]
      [] in.rt = "loadbalancer" ->
            [content |-> [NoBoxes EXCEPT !.center = "LoadBalancer",
                                 !.listeners = IF in.hasLB THEN Count(in.listeners) ELSE 0,
                                 !.pools = IF in.hasLB THEN Count(in.pools) ELSE 0],
             err |-> FALSE,
             calls |-> IF in.hasLB THEN <<"ListListeners", "ListPools">> ELSE <<>>]
      [] OTHER ->
            [content |-> [NoBoxes EXCEPT !.center = "Graph not available"],
             err |-> FALSE, calls |-> <<>>]

\* ServerGraphModel.buildGraph with a "+N more" box that counts the items
\* after the first seven, while eight stay in the column.
ServerBuildGraphCountsFromSeven(in) ==
    IF in.ifaces = Err
    THEN [content |-> NoBoxes, err |-> TRUE, calls |-> <<"ListServerInterfaces">>]
    ELSE IF in.vols = Err
    THEN [content |-> NoBoxes, err |-> TRUE,
          calls |-> <<"ListServerInterfaces", "ListServerVolumes">>]
    ELSE LET n == in.ifaces
             nets == IF in.net # Err THEN n ELSE 0
             fips == Min(Count(in.fips), n)
             totalWidth == in.centerW
                           + (IF n > 0 THEN SeparatorApprox + in.boxW ELSE 0)
                           + (IF nets > 0 THEN SeparatorApprox + in.boxW ELSE 0)
                           + (IF fips > 0 THEN SeparatorApprox + in.boxW ELSE 0)
         IN [content |-> [NoBoxes EXCEPT !.center = "Server",
                              !.ports = Min(n, maxPorts),
                              !.more = IF n > maxPorts THEN n - (maxPorts - 1) ELSE 0,
                              !.nets = nets,
                              !.fips = fips,
                              !.vols = in.vols,
                              !.stacked = DefaultViewportWidth > 0
                                          /\ totalWidth > DefaultViewportWidth],
             err |-> FALSE,
             calls |-> <<"ListServerInterfaces", "ListServerVolumes", "ListFloatingIPs">>
                       \o Repeat("GetNetwork", n)]

\* ServerGraphModel.buildGraph
ServerBuildGraph(in) ==
    IF in.ifaces = Err
    THEN [content |-> NoBoxes, err |-> TRUE, calls |-> <<"ListServerInterfaces">>]
    ELSE IF in.vols = Err
    THEN [content |-> NoBoxes, err |-> TRUE,
          calls |-> <<"ListServerInterfaces", "ListServerVolumes">>]
    ELSE LET n == in.ifaces
             nets == IF in.net # Err THEN n ELSE 0
             fips == Min(Count(in.fips), n)
             totalWidth == in.centerW
                           + (IF n > 0 THEN SeparatorApprox + in.boxW ELSE 0)
                           + (IF nets > 0 THEN SeparatorApprox + in.boxW ELSE 0)
                           + (IF fips > 0 THEN SeparatorApprox + in.boxW ELSE 0)
         IN [content |-> [NoBoxes EXCEPT !.center = "Server",
                              !.ports = Min(n, maxPorts),
                              !.more = IF n > maxPorts THEN n - maxPorts ELSE 0,
                              !.nets = nets,
                              !.fips = fips,
                              !.vols = in.vols,
                              !.stacked = DefaultViewportWidth > 0
                                          /\ totalWidth > DefaultViewportWidth],
             err |-> FALSE,
             calls |-> <<"ListServerInterfaces", "ListServerVolumes", "ListFloatingIPs">>
                       \o Repeat("GetNetwork", n)]

buildGraph(in) ==
    IF in.model = "ServerGraphModel" THEN ServerBuildGraph(in) ELSE GraphBuildGraph(in)

\* The provider's answer to a call of the build.
Answer(in, call) ==
    CASE call = "ListServerInterfaces" -> in.ifaces
      [] call = "ListServerVolumes" -> in.vols
      [] call = "ListFloatingIPs" -> in.fips
      [] call = "GetNetwork" -> in.net
      [] call = "ListPortsByNetwork" -> in.ports
      [] call = "GetVolume" -> in.vol
      [] call = "GetInstance" -> in.inst
      [] call = "ListListeners" -> in.listeners
      [] call = "ListPools" -> in.pools

\* The sub-fetches a build issued that failed.
FailedCalls(in, out) ==
    {out.calls[i] : i \in {j \in 1..Len(out.calls) : Answer(in, out.calls[j]) = Err}}

AppIdle ==
    /\ m = NewAppModel
    /\ inflight = EmptyBag
    /\ run = "running"
    /\ last = [kind |-> "init", name |-> "", stale |-> FALSE, ok |-> TRUE, sel |-> ""]

TopologyIdle ==
    /\ fetches = [f \in Fetches |-> [pc |-> "done", failed |-> FALSE]]
    /\ errChan = <<>>
    /\ wg = 0
    /\ result = NoResult
    /\ topo = Nil

BuildIdle ==
    build = [in |-> NoAnswers, out |-> NoOutput, done |-> FALSE, pc |-> 0,
             flight |-> {}]

\* ------------------------------------------------------- SearchModel
\* Text is a sequence of characters.  The runes the user types:
Chars == {"a", "b"}

\* The resources of the cloud; the four other categories are empty.
SearchResources ==
    {[cat |-> "Servers", id |-> <<"b", "a">>, name |-> <<"a">>],
     [cat |-> "Servers", id |-> <<"b", "b">>, name |-> <<"a", "b">>],
     [cat |-> "Networks", id |-> <<"b">>, name |-> <<"a", "a">>]}

SearchCategories == {"Servers", "Networks"}

\* strings.TrimSpace(query) == ""
IsBlank(q) == \A i \in 1..Len(q) : q[i] = " "

\* strings.Contains(s, q)
Contains(s, q) ==
    \E i \in 1..(Len(s) + 1) :
        /\ i + Len(q) - 1 <= Len(s)
        /\ SubSeq(s, i, i + Len(q) - 1) = q

\* Go's order of strings, on the characters in use.
CharRank(c) == CASE c = " " -> 32 [] c = "a" -> 97 [] c = "b" -> 98

RECURSIVE TextLess(_, _)
TextLess(x, y) ==
    IF y = <<>> THEN FALSE
    ELSE IF x = <<>> THEN TRUE
    ELSE IF Head(x) = Head(y) THEN TextLess(Tail(x), Tail(y))
    ELSE CharRank(Head(x)) < CharRank(Head(y))

\* "Networks" < "Servers"
CatRank(cat) == CASE cat = "Networks" -> 1 [] cat = "Servers" -> 2

\* The less function of the sort.Slice of searchCmd: Category, then Name.
ResultLess(x, y) ==
    IF x.cat # y.cat THEN CatRank(x.cat) < CatRank(y.cat) ELSE TextLess(x.name, y.name)

RECURSIVE SortResults(_)
SortResults(S) ==
    IF S = {} THEN <<>>
    ELSE LET x == CHOOSE r \in S : \A o \in S \ {r} : ResultLess(r, o)
         IN <<x>> \o SortResults(S \ {x})

\* The function searchCmd returns, run while the provider fails the list
\* calls of the categories in failing: a failed category contributes no
\* result and no error.
searchCmd(query, failing) ==
    IF IsBlank(query) THEN <<>>
    ELSE SortResults({r \in SearchResources :
                          /\ r.cat \notin failing
                          /\ Contains(r.name, query) \/ Contains(r.id, query)})

NewSearchModel ==
    [input |-> <<>>, results |-> <<>>, cursor |-> 0, loading |-> FALSE,
     err |-> FALSE, query |-> <<>>, w |-> 0]

\* A command of the SearchModel: the 300 ms debounce tick, the search, and
\* the two messages for the parent.
SCmd(type, query) == SetToBag({[type |-> type, query |-> query]})

\* textinput.Update on a key: a rune is appended, backspace deletes the
\* last character.
InputUpdate(v, key) ==
    IF key \in Chars THEN Append(v, key)
    ELSE IF key = "backspace" /\ v # <<>> THEN SubSeq(v, 1, Len(v) - 1)
    ELSE v

\* (mutant) every debounce tick starts its search.
SearchUpdateEveryTick(s, ev) ==
    CASE ev.kind = "size" -> CR([s EXCEPT !.w = ev.w], NoCmd)
      [] ev.kind = "key" /\ ev.key = "esc" -> CR(s, SCmd("SearchDoneMsg", <<>>))
      [] ev.kind = "key" /\ ev.key = "enter" ->
            IF s.cursor >= 0 /\ s.cursor < Len(s.results)
            THEN CR(s, SCmd("SearchSelectedMsg", <<>>))
            ELSE CR(s, NoCmd)
      [] ev.kind = "key" /\ ev.key = "j" ->
            CR(IF s.cursor < Len(s.results) - 1 THEN [s EXCEPT !.cursor = @ + 1] ELSE s,
               NoCmd)
      [] ev.kind = "key" /\ ev.key = "k" ->
            CR(IF s.cursor > 0 THEN [s EXCEPT !.cursor = @ - 1] ELSE s, NoCmd)
      [] ev.kind = "key" /\ ev.key \notin {"esc", "enter", "j", "k"} ->
            LET newVal == InputUpdate(s.input, ev.key)
            IN IF newVal # s.input
               THEN CR([s EXCEPT !.input = newVal, !.cursor = 0, !.loading = TRUE],
                       SCmd("searchQueryMsg", newVal))
               ELSE CR(s, NoCmd)
      [] ev.kind = "msg" /\ ev.type = "searchQueryMsg" ->
            CR([s EXCEPT !.query = ev.query], SCmd("searchCmd", ev.query))
      [] ev.kind = "msg" /\ ev.type = "searchResultsMsg" ->
            CR([s EXCEPT !.results = ev.results, !.loading = FALSE, !.err = FALSE,
                         !.cursor = 0], NoCmd)
      [] OTHER -> CR(s, NoCmd)

\* SearchModel.Update
SearchUpdate(s, ev) ==
    CASE ev.kind = "size" -> CR([s EXCEPT !.w = ev.w], NoCmd)
      [] ev.kind = "key" /\ ev.key = "esc" -> CR(s, SCmd("SearchDoneMsg", <<>>))
      [] ev.kind = "key" /\ ev.key = "enter" ->
            IF s.cursor >= 0 /\ s.cursor < Len(s.results)
            THEN CR(s, SCmd("SearchSelectedMsg", <<>>))
            ELSE CR(s, NoCmd)
      [] ev.kind = "key" /\ ev.key = "j" ->
            CR(IF s.cursor < Len(s.results) - 1 THEN [s EXCEPT !.cursor = @ + 1] ELSE s,
               NoCmd)
      [] ev.kind = "key" /\ ev.key = "k" ->
            CR(IF s.cursor > 0 THEN [s EXCEPT !.cursor = @ - 1] ELSE s, NoCmd)
      [] ev.kind = "key" /\ ev.key \notin {"esc", "enter", "j", "k"} ->
            LET newVal == InputUpdate(s.input, ev.key)
            IN IF newVal # s.input
               THEN CR([s EXCEPT !.input = newVal, !.cursor = 0, !.loading = TRUE],
                       SCmd("searchQueryMsg", newVal))
               ELSE CR(s, NoCmd)
      [] ev.kind = "msg" /\ ev.type = "searchQueryMsg" ->
            IF ev.query = s.input
            THEN CR([s EXCEPT !.query = ev.query], SCmd("searchCmd", ev.query))
            ELSE CR(s, NoCmd)
      [] ev.kind = "msg" /\ ev.type = "searchResultsMsg" ->
            CR([s EXCEPT !.results = ev.results, !.loading = FALSE, !.err = FALSE,
                         !.cursor = 0], NoCmd)
      [] OTHER -> CR(s, NoCmd)

\* shown is (ghost) the query of the search that produced the results.
SearchIdle ==
    search = [m |-> NewSearchModel, flight |-> EmptyBag,
              last |-> [kind |-> "init"], shown |-> <<>>]

\* One turn of the event loop of a program whose model is the SearchModel.
SearchStep(ev, rest) ==
    LET r == SearchUpdate(search.m, ev)
    IN /\ BagCardinality(rest (+) r.c) <= MaxInFlight
       /\ search' = [m |-> r.m, flight |-> rest (+) r.c, last |-> ev,
                     shown |-> IF ev.kind = "msg" /\ ev.type = "searchResultsMsg"
                               THEN ev.query ELSE search.shown]
       /\ UNCHANGED <<appVars, topoVars, build, tree, cache>>

SearchKeyMsg(K) ==
    \E k \in K :
        /\ k \in Chars => Len(search.m.input) < MaxCmdLen
        /\ SearchStep([kind |-> "key", key |-> k], search.flight)

SearchWindowSizeMsg ==
    \E w \in ResizeWidths : SearchStep([kind |-> "size", w |-> w], search.flight)

\* The debounce tick fires, or a message for the parent leaves.
SearchDeliver ==
    \E c \in BagToSet(search.flight) :
        /\ c.type # "searchCmd"
        /\ SearchStep([kind |-> "msg", type |-> c.type, query |-> c.query],
                      search.flight (-) SetToBag({c}))

\* A search returns; query is (ghost) the query it was started for.
SearchResults ==
    \E c \in BagToSet(search.flight) : \E failing \in SUBSET SearchCategories :
        /\ c.type = "searchCmd"
        /\ SearchStep([kind |-> "msg", type |-> "searchResultsMsg", query |-> c.query,
                       results |-> searchCmd(c.query, failing)],
                      search.flight (-) SetToBag({c}))

\* ------------------------------------------------------------- Cache
\* Resource types and keys are strings: sequences of characters.
\* The resources and keys the callers use.
CachePairs ==
    {<<<<"a">>, <<"b", ":", "c">>>>,
     <<<<"a", ":", "b">>, <<"c">>>>}

CacheResources == {p[1] : p \in CachePairs}

CacheValues == {"v", "w"}

\* Durations and the clock count minutes.
FiveMinutes == 5

\* The TTLs a caller passes to NewCache and to SetTTL.
Durations == {0, 1}

CacheThreads == {1, 2}

\* Cache.makeKey
makeKey(resource, key) == resource \o <<":">> \o key

MapKeys == {makeKey(p[1], p[2]) : p \in CachePairs}

\* NewCache: an absent map entry is Nil, an absent TTL is 0 (SetTTL stores
\* positive TTLs only).
NewCache(defaultTTL) ==
    [items |-> [k \in MapKeys |-> Nil],
     ttl |-> [r \in CacheResources |-> 0],
     defaultTTL |-> IF defaultTTL <= 0 THEN FiveMinutes ELSE defaultTTL]

\* Cache.getTTL
getTTL(c, resource) == IF c.ttl[resource] # 0 THEN c.ttl[resource] ELSE c.defaultTTL

\* time.Now().After(entry.expiresAt)
Expired(entry, now) == now > entry.expiresAt

NoReturn == [op |-> "none"]

\* c is the Cache, now the clock, calls the Set and Get calls in progress
\* and ret what the last Get returned.  truth is (ghost) for every resource
\* and key the entry of the last Set that no Delete, Clear, PurgeExpired
\* or Get of an expired entry has removed.
NewCacheState(defaultTTL) ==
    [c |-> NewCache(defaultTTL), now |-> 0,
     calls |-> [t \in CacheThreads |-> Nil],
     ret |-> NoReturn,
     truth |-> [p \in CachePairs |-> Nil]]

CacheIdle == cache = NewCacheState(0)

OtherVars == <<appVars, topoVars, build, tree, search>>

\* Cache.Set, line 99: the expiry is computed before the lock is taken.
SetCall(t, resource, key, value) ==
    /\ cache.calls[t] = Nil
    /\ cache' = [cache EXCEPT !.calls[t] =
                    [op |-> "Set", resource |-> resource, key |-> key,
                     entry |-> [value |-> value,
                                expiresAt |-> cache.now + getTTL(cache.c, resource)]]]
    /\ UNCHANGED OtherVars

\* Cache.Set, lines 100-102: the entry is stored and Set returns.
SetReturn(t) ==
    /\ cache.calls[t] # Nil
    /\ cache.calls[t].op = "Set"
    /\ LET call == cache.calls[t]
       IN cache' = [cache EXCEPT
                       !.c.items[makeKey(call.resource, call.key)] = call.entry,
                       !.truth[<<call.resource, call.key>>] = call.entry,
                       !.calls[t] = Nil]
    /\ UNCHANGED OtherVars

\* Cache.Get, lines 107-109: the entry is read under the read lock.
\* truth is (ghost) the entry the call is to find.
GetCall(t, resource, key) ==
    /\ cache.calls[t] = Nil
    /\ cache' = [cache EXCEPT !.calls[t] =
                    [op |-> "Get", resource |-> resource, key |-> key,
                     entry |-> cache.c.items[makeKey(resource, key)],
                     truth |-> cache.truth[<<resource, key>>]]]
    /\ UNCHANGED OtherVars

\* Cache.Get, lines 110-119: a missing entry and an expired one return
\* (nil, false), and the key of the expired one is deleted under the write
\* lock, whatever the map holds for it by then.
GetReturn(t) ==
    /\ cache.calls[t] # Nil
    /\ cache.calls[t].op = "Get"
    /\ LET call == cache.calls[t]
           pair == <<call.resource, call.key>>
           miss == [op |-> "Get", resource |-> call.resource, key |-> call.key,
                    value |-> "nil", ok |-> FALSE]
       IN IF call.entry = Nil
          THEN cache' = [cache EXCEPT !.ret = miss, !.calls[t] = Nil]
          ELSE IF Expired(call.entry, cache.now)
          THEN cache' = [cache EXCEPT
                            !.c.items[makeKey(call.resource, call.key)] = Nil,
                            !.truth[pair] =
                                IF @ # Nil /\ Expired(@, cache.now) THEN Nil ELSE @,
                            !.ret = miss,
                            !.calls[t] = Nil]
          ELSE cache' = [cache EXCEPT
                            !.ret = [miss EXCEPT !.value = call.entry.value, !.ok = TRUE],
                            !.calls[t] = Nil]
    /\ UNCHANGED OtherVars

\* Cache.SetTTL
SetTTL(t, resource, ttl) ==
    /\ cache.calls[t] = Nil
    /\ cache' = IF ttl <= 0 THEN cache
                ELSE [cache EXCEPT !.c.ttl[resource] = ttl]
    /\ UNCHANGED OtherVars

\* Cache.Delete
Delete(t, resource, key) ==
    /\ cache.calls[t] = Nil
    /\ cache' = [cache EXCEPT !.c.items[makeKey(resource, key)] = Nil,
                              !.truth[<<resource, key>>] = Nil]
    /\ UNCHANGED OtherVars

\* Cache.Clear
Clear(t) ==
    /\ cache.calls[t] = Nil
    /\ cache' = [cache EXCEPT !.c.items = [k \in MapKeys |-> Nil],
                              !.truth = [p \in CachePairs |-> Nil]]
    /\ UNCHANGED OtherVars

\* Cache.PurgeExpired
PurgeExpired(t) ==
    /\ cache.calls[t] = Nil
    /\ cache' = [cache EXCEPT
                    !.c.items = [k \in MapKeys |->
                                    IF @[k] # Nil /\ Expired(@[k], cache.now)
                                    THEN Nil ELSE @[k]],
                    !.truth = [p \in CachePairs |->
                                    IF @[p] # Nil /\ Expired(@[p], cache.now)
                                    THEN Nil ELSE @[p]]]
    /\ UNCHANGED OtherVars

\* A minute passes.
CacheTick ==
    /\ cache.now < MaxTime
    /\ cache' = [cache EXCEPT !.now = @ + 1]
    /\ UNCHANGED OtherVars

\* ------------------------------------------- buildTopology: the tree
\* Display names, coded by their rank in Go's string order.
Names == 1..2

Ids == 1..MaxItems

\* A fetched list: resources with distinct ids, in the order the provider
\* returned them.
ItemLists ==
    {s \in UNION {[1..n -> [id : Ids, name : Names]] : n \in 0..MaxItems} :
        \A i, j \in 1..Len(s) : i # j => s[i].id # s[j].id}

\* netServers[nid]: the servers of one network, a Go map used as a set.
ServerSets ==
    {S \in SUBSET [id : Ids, name : Names] :
        \A a, b \in S : a.id = b.id => a = b}

\* netRouters[nid]: the routers of one network in fetch order; a router's
\* name is coded by its id, so that router names are distinct.
RouterLists == {s \in ItemLists : \A i \in 1..Len(s) : s[i].name = s[i].id}

\* serverPorts[sid] with portFIPs: for each port of a server, the number of
\* floating IPs attached to it.
PortLists == UNION {[1..n -> 0..1] : n \in 0..MaxItems}

\* Ports with no floating IP, at least one (a server is on a network
\* through a port).
PlainPortLists == {[i \in 1..n |-> 0] : n \in 1..MaxItems}

\* The fetched data the renderer draws: the networks; the servers and the
\* routers of a network; the ports (with their floating IPs) and the
\* number of volumes of a server; the floating IPs with no port and the
\* volumes with no attachment.
NoSnapshot ==
    [nets |-> <<>>, srvs |-> {}, routers |-> <<>>, ports |-> <<>>, vols |-> 0,
     ufips |-> 0, uvols |-> 0]

\* Snapshots with names that may be equal, snapshots with every shape of
\* the tree under one network, and snapshots with unattached resources.
Snapshots ==
    {[NoSnapshot EXCEPT !.nets = n, !.srvs = S, !.routers = r] :
        n \in ItemLists, S \in ServerSets, r \in RouterLists}
    \cup {[NoSnapshot EXCEPT !.nets = <<[id |-> 1, name |-> 1]>>, !.srvs = S,
                             !.routers = r, !.ports = p, !.vols = v] :
            S \in {T \in ServerSets : \A a \in T : a.name = a.id},
            r \in RouterLists, p \in PortLists, v \in 0..MaxItems}
    \cup {[NoSnapshot EXCEPT !.nets = n, !.srvs = S, !.ports = p,
                             !.ufips = f, !.uvols = v] :
            n \in RouterLists,
            S \in {T \in ServerSets : \A a \in T : a.name = a.id},
            p \in PlainPortLists, f \in 0..MaxItems, v \in 0..MaxItems}

\* `for sid := range serverSet`: Go iterates a map in an order that
\* differs from one run to the next.
MapOrders(S) ==
    {s \in [1..Cardinality(S) -> S] :
        \A i, j \in 1..Len(s) : i # j => s[i] # s[j]}

Front(s) == SubSeq(s, 1, Len(s) - 1)

\* sort.Slice with less = (a.Name < b.Name) on a short slice: an insertion
\* sort, which moves an element left only past elements with a greater
\* name and so leaves equal names in their incoming order.
RECURSIVE InsertByName(_, _)
InsertByName(sorted, x) ==
    IF sorted = <<>> THEN <<x>>
    ELSE IF x.name < sorted[Len(sorted)].name
         THEN Append(InsertByName(Front(sorted), x), sorted[Len(sorted)])
         ELSE Append(sorted, x)

RECURSIVE SortByName(_)
SortByName(s) ==
    IF s = <<>> THEN <<>>
    ELSE InsertByName(SortByName(Front(s)), s[Len(s)])

RECURSIVE Concat(_)
Concat(ss) == IF ss = <<>> THEN <<>> ELSE Head(ss) \o Concat(Tail(ss))

\* A line of the tree: what it shows, how deep it is nested, and whether
\* its connector is the closing one (lastBranch) or the continuing one
\* (branch); a header has no connector.
Line(kind, depth, closing, id) ==
    [kind |-> kind, depth |-> depth, closing |-> closing, id |-> id]

\* Lines 251-281: the ports of a server, each followed by its floating IPs.
PortLines(in) ==
    Concat([pi \in 1..Len(in.ports) |->
        <<Line("port", 2,
               pi = Len(in.ports) /\ in.vols = 0 /\ in.ports[pi] = 0, 0)>>
        \o [fi \in 1..in.ports[pi] |-> Line("fip", 3, fi = in.ports[pi], 0)]])

\* Lines 282-298: the volumes of a server.
VolLines(in) == [vi \in 1..in.vols |-> Line("vol", 2, vi = in.vols, 0)]

\* Lines 240-299: a server of a network with its ports and volumes.
ServerLines(in, srv, isLastServer) ==
    <<Line("srv", 1, isLastServer, srv.id)>> \o PortLines(in) \o VolLines(in)

\* Lines 218-312: a network: its header, its servers, its routers.
NetLines(in, net, srvs) ==
    <<Line("net", 0, FALSE, net.id)>>
    \o Concat([si \in 1..Len(srvs) |->
                  ServerLines(in, srvs[si], si = Len(srvs) /\ Len(in.routers) = 0)])
    \o [ri \in 1..Len(in.routers) |->
           Line("router", 1, ri = Len(in.routers), in.routers[ri].id)]

\* (mutant) the section is written only for unattached floating IPs.
UnattachedLinesFIPsOnly(in) ==
    IF in.ufips > 0
    THEN <<Line("unattached", 0, FALSE, 0)>>
         \o [i \in 1..in.ufips |-> Line("ufip", 1, i = in.ufips /\ in.uvols = 0, 0)]
         \o [i \in 1..in.uvols |-> Line("uvol", 1, i = in.uvols, 0)]
    ELSE <<>>

\* Lines 313-346: the trailing section of the unattached resources.
UnattachedLines(in) ==
    IF in.ufips > 0 \/ in.uvols > 0
    THEN <<Line("unattached", 0, FALSE, 0)>>
         \o [i \in 1..in.ufips |-> Line("ufip", 1, i = in.ufips /\ in.uvols = 0, 0)]
         \o [i \in 1..in.uvols |-> Line("uvol", 1, i = in.uvols, 0)]
    ELSE <<>>

\* The rendering half of buildTopology for one run: the networks in the
\* order drawn, the servers and the routers of a network in the order
\* drawn, and the lines of the whole tree, top to bottom.
renderTopology(in, srvIDs) ==
    LET nets == SortByName(in.nets)
        srvs == SortByName(srvIDs)
    IN [nets    |-> nets,
        srvs    |-> srvs,
        routers |-> in.routers,
        lines   |-> Concat([ni \in 1..Len(nets) |-> NetLines(in, nets[ni], srvs)])
                    \o UnattachedLines(in)]

TreeIdle == tree = [in |-> NoSnapshot, out |-> <<>>]

InitRender ==
    /\ \E in \in Snapshots : tree = [in |-> in, out |-> <<>>]
    /\ AppIdle
    /\ SearchIdle
    /\ CacheIdle
    /\ TopologyIdle
    /\ BuildIdle

\* One run of the renderer on the fetched data.
RenderTopology ==
    /\ Len(tree.out) < MaxRuns
    /\ \E srvIDs \in MapOrders(tree.in.srvs) :
           tree' = [tree EXCEPT !.out = Append(@, renderTopology(tree.in, srvIDs))]
    /\ UNCHANGED <<appVars, topoVars, build, search, cache>>

NextRender == RenderTopology

SpecRender == InitRender /\ [][NextRender]_vars


\* ------------------------------- buildTopology: from the lists to the tree
\* The fetched lists the lookup maps are built from.  Two networks, 1 and
\* 2, named by their ids.  A server of the server list is named by its id.
\* A port has the id of its place in portList (so the list is in the order
\* of the port ids), the id of its device (0 for the empty DeviceID) and
\* the id of its network.
TopoNets == <<1, 2>>

PortRecs == [dev : 0..MaxItems, net : {1, 2}]

FetchedLists ==
    [srvList : SUBSET (1..MaxItems),
     portList : UNION {[1..n -> PortRecs] : n \in 0..MaxItems}]

\* Lines 139-143: serverMap[sid]; the zero Server for an id not in srvList.
serverMap(f, sid) ==
    IF sid \in f.srvList THEN [id |-> sid, name |-> sid] ELSE [id |-> 0, name |-> 0]

\* Lines 145-155: netServers[nid], the devices of the ports of a network.
netServers(f, nid) ==
    {f.portList[i].dev :
        i \in {j \in 1..Len(f.portList) :
                  f.portList[j].dev # 0 /\ f.portList[j].net = nid}}

\* Lines 145-155: serverPorts[sid], the ports of a device on any network.
serverPorts(f, sid) ==
    LET idx == {i \in 1..Len(f.portList) : f.portList[i].dev # 0 /\ f.portList[i].dev = sid}
        ids == SelectSeq([i \in 1..Len(f.portList) |-> i], LAMBDA i : i \in idx)
    IN [k \in 1..Len(ids) |-> [id |-> ids[k], net |-> f.portList[ids[k]].net]]

\* Lines 231-268: the server lines of a network and, under each, the port
\* lines of serverPorts[srv.ID], where srv is serverMap[sid].
TopologyServerLines(f, nid, srvIDs) ==
    LET srvs == SortByName([i \in 1..Len(srvIDs) |->
                               [id |-> srvIDs[i], name |-> serverMap(f, srvIDs[i]).name]])
    IN Concat([si \in 1..Len(srvs) |->
           LET srv == serverMap(f, srvs[si].id)
               ports == serverPorts(f, srv.id)
           IN <<[kind |-> "srv", net |-> nid, dev |-> srvs[si].id, name |-> srv.name]>>
              \o [pi \in 1..Len(ports) |->
                     [kind |-> "port", net |-> nid, port |-> ports[pi].id,
                      portNet |-> ports[pi].net]]])

\* Lines 218-312: the header of each network and the lines under it.
TopologyLines(f, order) ==
    Concat([ni \in 1..Len(TopoNets) |->
               <<[kind |-> "net", net |-> TopoNets[ni]]>>
               \o TopologyServerLines(f, TopoNets[ni], order[ni])])

InitTree ==
    /\ \E f \in FetchedLists : tree = [in |-> f, out |-> <<>>]
    /\ AppIdle
    /\ SearchIdle
    /\ CacheIdle
    /\ TopologyIdle
    /\ BuildIdle

\* buildTopology draws the tree from the fetched lists; the devices of a
\* network come out of the Go map in any order.
DrawTopology ==
    /\ tree.out = <<>>
    /\ \E o1 \in MapOrders(netServers(tree.in, 1)) :
       \E o2 \in MapOrders(netServers(tree.in, 2)) :
           tree' = [tree EXCEPT !.out = <<TopologyLines(tree.in, <<o1, o2>>)>>]
    /\ UNCHANGED <<appVars, topoVars, build, search, cache>>

NextTree == DrawTopology

SpecTree == InitTree /\ [][NextTree]_vars

\* buildTopology has started its seven goroutines and waits.
InitTopology ==
    /\ fetches = [f \in Fetches |-> [pc |-> "call", failed |-> FALSE]]
    /\ errChan = <<>>
    /\ wg = NumFetches
    /\ result = NoResult
    /\ topo = NewTopologyModel
    /\ AppIdle
    /\ SearchIdle
    /\ CacheIdle
    /\ BuildIdle
    /\ TreeIdle

NextTopology ==
    \/ \E f \in Fetches : \E failed \in BOOLEAN : FetchReturn(f, failed)
    \/ \E f \in Fetches : FetchExit(f)
    \/ Join
    \/ TopologyDataMsg

SpecTopology == InitTopology /\ [][NextTopology]_vars

InitBuild ==
    /\ \E in \in BuildInputs :
           build = [in |-> in, out |-> NoOutput, done |-> FALSE, pc |-> 0,
                    flight |-> {}]
    /\ AppIdle
    /\ SearchIdle
    /\ CacheIdle
    /\ TopologyIdle
    /\ TreeIdle

\* The command of Init runs buildGraph.
BuildGraph ==
    /\ ~build.done
    /\ build.pc = 0
    /\ build' = [build EXCEPT !.out = buildGraph(build.in), !.done = TRUE]
    /\ UNCHANGED <<appVars, topoVars, tree, search, cache>>

NextBuild == BuildGraph

SpecBuild == InitBuild /\ [][NextBuild]_vars

\* The same build, one provider call at a time.  buildGraph runs in the one
\* goroutine of its command and every provider call is a plain function
\* call: the next call is made when the one before has returned.
Calls == buildGraph(build.in).calls

\* The call issued is the next of the build; it is in flight until the
\* provider answers.
IssueCall(c) ==
    /\ ~build.done
    /\ build.flight = {}
    /\ build.pc < Len(Calls)
    /\ Calls[build.pc + 1] = c
    /\ build' = [build EXCEPT !.pc = build.pc + 1, !.flight = {c}]
    /\ UNCHANGED <<appVars, topoVars, tree, search, cache>>

ReturnCall ==
    /\ build.flight # {}
    /\ build' = [build EXCEPT !.flight = {}]
    /\ UNCHANGED <<appVars, topoVars, tree, search, cache>>

\* buildGraph returns after its last call.
ReturnGraph ==
    /\ ~build.done
    /\ build.flight = {}
    /\ build.pc = Len(Calls)
    /\ build' = [build EXCEPT !.out = buildGraph(build.in), !.done = TRUE]
    /\ UNCHANGED <<appVars, topoVars, tree, search, cache>>

ProviderCalls ==
    {"ListServerInterfaces", "ListServerVolumes", "ListFloatingIPs", "GetNetwork",
     "ListPortsByNetwork", "GetVolume", "GetInstance", "ListListeners", "ListPools"}

NextFetch ==
    \/ \E c \in ProviderCalls : IssueCall(c)
    \/ ReturnCall
    \/ ReturnGraph

SpecFetch == InitBuild /\ [][NextFetch]_vars

\* ------------------------------------------------- the cache programs
InitCache ==
    /\ \E d \in Durations : cache = NewCacheState(d)
    /\ AppIdle
    /\ SearchIdle
    /\ TopologyIdle
    /\ BuildIdle
    /\ TreeIdle

\* One caller: a call returns before the next is made.
NextCache ==
    \/ \E p \in CachePairs : \E v \in CacheValues : SetCall(1, p[1], p[2], v)
    \/ SetReturn(1)
    \/ \E p \in CachePairs : GetCall(1, p[1], p[2])
    \/ GetReturn(1)
    \/ \E r \in CacheResources : \E d \in Durations : SetTTL(1, r, d)
    \/ \E p \in CachePairs : Delete(1, p[1], p[2])
    \/ Clear(1)
    \/ PurgeExpired(1)
    \/ CacheTick

SpecCache == InitCache /\ [][NextCache]_vars

\* Two callers of Set and Get on one resource and key.
RacePair == <<<<"a">>, <<"b", ":", "c">>>>

NextCacheRace ==
    \/ \E t \in CacheThreads : \E v \in CacheValues :
           SetCall(t, RacePair[1], RacePair[2], v)
    \/ \E t \in CacheThreads : SetReturn(t)
    \/ \E t \in CacheThreads : GetCall(t, RacePair[1], RacePair[2])
    \/ \E t \in CacheThreads : GetReturn(t)
    \/ CacheTick

SpecCacheRace == InitCache /\ [][NextCacheRace]_vars

\* ------------------------------------------------- the search program
SearchKeys == {"a", "backspace", "esc", "enter", "j", "k"}

InitSearch ==
    /\ AppIdle
    /\ SearchIdle
    /\ CacheIdle
    /\ TopologyIdle
    /\ BuildIdle
    /\ TreeIdle

NextSearch ==
    \/ SearchKeyMsg(SearchKeys)
    \/ SearchWindowSizeMsg
    \/ SearchDeliver
    \/ SearchResults

SpecSearch == InitSearch /\ [][NextSearch]_vars

\* ------------------------------------------------- the navigation specs
Init ==
    /\ AppIdle
    /\ SearchIdle
    /\ CacheIdle
    /\ TopologyIdle
    /\ BuildIdle
    /\ TreeIdle

\* The entries and keys of a user who opens a list, a detail and its graph.
NavItems == {"=== COMPUTE ===", "Load Balancers", "Exit"}

NavKeys == {"esc", "g", "j", "k"}

Next == KeyMsg(NavKeys) \/ KeyEnter(NavItems) \/ Deliver(BOOLEAN)

Spec == Init /\ [][Next]_vars

\* ... who also opens and closes the help.
HelpKeys == {"esc", "g", "?"}

NextHelp == KeyMsg(HelpKeys) \/ KeyEnter(NavItems) \/ Deliver(BOOLEAN)

SpecHelp == Init /\ [][NextHelp]_vars

\* ... who uses the command bar.
CommandKeys == {"esc", ":", "r", "t", "l", "b"}

NextCommand == KeyMsg(CommandKeys) \/ KeyEnter(NavItems) \/ Deliver(BOOLEAN)

SpecCommand == Init /\ [][NextCommand]_vars

\* ... who resizes the terminal around a list, a detail, a graph, the
\* command bar and the shell.
ResizeKeys == {":", "!", "g"}

ResizeItems == {"Load Balancers"}

NextResize ==
    KeyMsg(ResizeKeys) \/ KeyEnter(ResizeItems) \/ Deliver({TRUE}) \/ WindowSizeMsg

SpecResize == Init /\ [][NextResize]_vars

\* ... who quits, from the sidebar, a list, a detail, a graph, the help,
\* the command bar and the shell.
QuitKeys == {"q", "ctrl+c", "?", ":", "g", "!"}

QuitItems == {"Load Balancers"}

NextQuit == KeyMsg(QuitKeys) \/ KeyEnter(QuitItems) \/ Deliver({TRUE})

SpecQuit == Init /\ [][NextQuit]_vars

\* ... who opens a server's detail and presses the keys of the detail child.
DetailKeys == {"l", "j", "esc"}

DetailItems == {"Servers"}

NextDetail == KeyMsg(DetailKeys) \/ KeyEnter(DetailItems) \/ Deliver(BOOLEAN)

SpecDetail == Init /\ [][NextDetail]_vars

\* ... who opens the detail of a resource of every kind and presses g.
GraphKeys == {"g"}

GraphItems == {"Servers", "Networks", "Volumes", "Floating IPs",
               "Load Balancers", "Routers"}

NextGraph == KeyMsg(GraphKeys) \/ KeyEnter(GraphItems) \/ Deliver(BOOLEAN)

SpecGraph == Init /\ [][NextGraph]_vars

\* ... who enters sidebar entries, among them the two without a list view,
\* and presses the key the README gives for the topology view.
SidebarKeys == {"esc", "T"}

SidebarEntries == {"Servers", "Subnets", "Snapshots", "Volumes", "Exit"}

NextSidebar == KeyMsg(SidebarKeys) \/ KeyEnter(SidebarEntries) \/ Deliver(BOOLEAN)

SpecSidebar == Init /\ [][NextSidebar]_vars

\* ... who opens the cloud list from the sidebar, a list, a detail and
\* the command bar, and leaves it.
CloudKeys == {"c", "esc", ":"}

CloudItems == {"Load Balancers"}

NextCloud == KeyMsg(CloudKeys) \/ KeyEnter(CloudItems) \/ Deliver({TRUE})

SpecCloud == Init /\ [][NextCloud]_vars

\* A user who types into the command bar, deletes and completes with Tab.
TabKeys == {":", "tab", "backspace", "esc", "l", "b"}

NextTab == KeyMsg(TabKeys)

SpecTab == Init /\ [][NextTab]_vars

\* A user who opens a list and a detail and, over them, the overlays: the
\* help, the command bar and the cloud list.
OverlayKeys == {"?", ":", "c", "esc"}

OverlayItems == {"Load Balancers"}

NextOverlay == KeyMsg(OverlayKeys) \/ KeyEnter(OverlayItems) \/ Deliver(BOOLEAN)

SpecOverlay == Init /\ [][NextOverlay]_vars

\* ------------------------------------------------------------ the claims
PressedKey(k) == last'.kind = "key" /\ last'.name = k

Delivered(type) == last'.kind = "msg" /\ last'.name = type

SameChildren ==
    /\ m'.mainModel = m.mainModel
    /\ m'.detailModel = m.detailModel
    /\ m'.graphModel = m.graphModel
    /\ m'.logsModel = m.logsModel
    /\ m'.shellModel = m.shellModel

\* C1: the completion of a load whose child has been discarded is dropped:
\* it changes no child of the model.
C1_StaleCompletionDropped ==
    [][(last'.kind = "msg" /\ last'.stale) => SameChildren]_vars

\* C2: buildTopology produces no result while any of the seven provider
\* calls is outstanding.
C2_JoinBeforePublish ==
    (\E f \in Fetches : fetches[f].pc = "call") => ~result.returned

C2_Witness ==
    /\ result.returned
    /\ \A f \in Fetches : fetches[f].pc = "done"

\* C3: when a provider call of buildTopology has failed, the call returns
\* the error of one of the failing calls and no content.
C3_ErrorPropagation ==
    (result.returned /\ \E f \in Fetches : fetches[f].failed)
        => /\ result.content = ""
           /\ result.err \in {f \in Fetches : fetches[f].failed}

C3_Witness ==
    /\ result.returned
    /\ Cardinality({f \in Fetches : fetches[f].failed}) >= 2
    /\ result.err # ""

\* C4: when a sub-fetch issued by a focal-graph build has failed, the build
\* returns an error and no content.
C4_SubFetchErrorPropagates ==
    (build.done /\ FailedCalls(build.in, build.out) # {})
        => (build.out.err /\ build.out.content = NoBoxes)

\* C5: ? in the graph state opens the help and remembers the graph state,
\* the help leaves the graph child alone, and Esc closes the help back to
\* the graph state with that graph child.
C5_HelpReturnsToGraph ==
    [][/\ (m.state = stateGraph /\ PressedKey("?"))
            => (m'.state = stateHelp /\ m'.prevState = stateGraph
                /\ m'.graphModel = m.graphModel)
       /\ (m.state = stateHelp /\ m'.state = stateHelp)
            => (m'.prevState = m.prevState /\ m'.graphModel = m.graphModel)
       /\ (m.state = stateHelp /\ m.prevState = stateGraph /\ PressedKey("esc"))
            => (m'.state = stateGraph /\ m'.graphModel = m.graphModel
                /\ m'.graphModel # Nil)]_vars

C5_Witness ==
    /\ m.state = stateGraph
    /\ last.kind = "key" /\ last.name = "esc"
    /\ m.graphModel # Nil

\* C6: ? opens the help from every other state and records that state; in
\* the help both ? and Esc return to the recorded state.
C6_HelpToggle ==
    [][/\ (m.state # stateHelp /\ PressedKey("?"))
            => (m'.state = stateHelp /\ m'.prevState = m.state)
       /\ (m.state = stateHelp /\ (PressedKey("?") \/ PressedKey("esc")))
            => m'.state = m.prevState]_vars

\* C7: in the graph state g and Esc lead back to the detail state of the
\* same detail child and the graph child is discarded (the key asks the
\* graph child to go back, the GoBackMsg it answers with does it).
C7_GraphBackToDetail ==
    [][/\ (m.state = stateGraph /\ (PressedKey("g") \/ PressedKey("esc")))
            => /\ m'.state \in {stateGraph, stateDetail}
               /\ m'.state = stateGraph
                    => BagIn([type |-> "GoBackMsg", kind |-> "", id |-> 0,
                              stale |-> FALSE], inflight')
               /\ m'.detailModel = m.detailModel
       /\ (m.state = stateGraph /\ Delivered("GoBackMsg"))
            => (m'.state = stateDetail /\ m'.graphModel = Nil
                /\ m'.detailModel = m.detailModel)]_vars

\* C8: : enters the command state from every state, and Esc in the command
\* state returns to the state : was pressed in, with the same children
\* (a second : inside the command state is left aside).
C8_CommandEscReturns ==
    [][/\ PressedKey(":") => (m'.state = stateCommand /\ m'.prevState = m.state)
       /\ (m.state = stateCommand /\ m.prevState # stateCommand /\ PressedKey("esc"))
            => (m'.state = m.prevState /\ SameChildren)]_vars

\* C9: Enter on a command name other than quit opens the list state with a
\* new list child of the section the command names and issues its load.
C9_CommandOpensList ==
    [][(/\ m.state = stateCommand
        /\ PressedKey("enter")
        /\ InCommandMap(TrimSpace(m.commandBar))
        /\ commandMap(TrimSpace(m.commandBar)) # "__quit__")
            => /\ run' = "running"
               /\ m'.state = stateMain
               /\ m'.mainModel = NewListModel(commandMap(TrimSpace(m.commandBar)))
               /\ BagIn([type |-> "list",
                         kind |-> commandMap(TrimSpace(m.commandBar)),
                         id |-> 0, stale |-> FALSE], inflight')]_vars

\* C10: a resize changes neither state nor prevState, creates and discards
\* no child and starts no load.
SameChild(a, b) ==
    IF a = Nil \/ b = Nil THEN a = b
    ELSE IF a.type \in {"list", "shell", "logs"} /\ a.type = b.type
    THEN [a EXCEPT !.w = 0] = [b EXCEPT !.w = 0]
    ELSE a = b

C10_ResizeKeepsMode ==
    [][last'.kind = "size"
            => /\ m'.state = m.state
               /\ m'.prevState = m.prevState
               /\ SameChild(m'.mainModel, m.mainModel)
               /\ SameChild(m'.shellModel, m.shellModel)
               /\ SameChild(m'.logsModel, m.logsModel)
               /\ m'.detailModel = m.detailModel
               /\ m'.graphModel = m.graphModel
               /\ inflight' = inflight]_vars

C10_Witness ==
    /\ last.kind = "size"
    /\ m.state = stateShell
    /\ m.shellModel # Nil
    /\ m.shellModel.w \in ResizeWidths
    /\ m.mainModel # Nil
    /\ m.mainModel.w \in ResizeWidths

\* C11: a resize reaches the child of the current state: afterwards the
\* list child in the list state, the loaded detail child in the detail
\* state, the graph child in the graph state, the logs child in the logs
\* state and the shell child in the shell state have the new width.
C11_ResizeReachesActiveChild ==
    [][last'.kind = "size"
            => /\ (m.state = stateMain /\ m.mainModel # Nil)
                    => m'.mainModel.w = m'.width
               /\ (m.state = stateDetail /\ m.detailModel # Nil
                   /\ ~m.detailModel.loading /\ ~m.detailModel.showGraph)
                    => m'.detailModel.w = m'.width
               /\ (m.state = stateGraph /\ m.graphModel # Nil)
                    => m'.graphModel.w = m'.width
               /\ (m.state = stateLogs /\ m.logsModel # Nil)
                    => m'.logsModel.w = m'.width
               /\ (m.state = stateShell /\ m.shellModel # Nil)
                    => m'.shellModel.w = m'.width]_vars

C13_OneChildAlive ==
    Cardinality({c \in {"mainModel", "detailModel", "graphModel", "logsModel",
                        "shellModel"} : m[c] # Nil}) <= 1

\* C14: in the detail state a key outside the intercepted set reaches the
\* detail child: the child becomes what its Update returns for the key and
\* the command it returns is issued, so l on a loaded server detail issues
\* the OpenLogsMsg that leads to the logs state.
InterceptedKeys == {"q", "ctrl+c", "?", ":", "c", "esc", "g"}

C14_DetailKeysForwarded ==
    [][(/\ m.state = stateDetail
        /\ m.detailModel # Nil
        /\ last'.kind = "key"
        /\ last'.name \notin InterceptedKeys)
            => LET r == DetailUpdate(m.detailModel, KeyEv(last'.name, "", ""))
               IN /\ m'.detailModel = r.m
                  /\ r.c \sqsubseteq inflight']_vars

\* C15: the completion of a load that failed leaves the state as it was,
\* and Esc goes back from a state whose child shows an error as it does
\* otherwise: from the detail state to the list state, from the list state
\* to the sidebar.
C15_ErrorKeepsMode ==
    [][/\ (last'.kind = "msg" /\ ~last'.ok)
            => (m'.state = m.state /\ m'.prevState = m.prevState)
       /\ (PressedKey("esc") /\ m.state = stateDetail
           /\ m.detailModel # Nil /\ m.detailModel.err)
            => m'.state = stateMain
       /\ (PressedKey("esc") /\ m.state = stateMain
           /\ m.mainModel # Nil /\ m.mainModel.err)
            => m'.state = stateSidebar]_vars

C15_Witness ==
    /\ last.kind = "key" /\ last.name = "esc"
    /\ m.state = stateMain
    /\ m.detailModel # Nil
    /\ m.detailModel.err

\* C16: a child whose load has completed with an error holds the error and
\* its View shows the error message, not content: the list child, the
\* detail child, the server graph of a detail child, the graph child, and
\* the topology child once the failed result of buildTopology has arrived.
C16_ErrorShownInPlace ==
    /\ (m.mainModel # Nil /\ m.mainModel.err)
            => ListView(m.mainModel).kind = "error"
    /\ (m.detailModel # Nil /\ m.detailModel.err)
            => DetailView(m.detailModel).kind = "error"
    /\ (m.detailModel # Nil /\ m.detailModel.graphModel # Nil
        /\ m.detailModel.graphModel.err)
            => ServerGraphView(m.detailModel.graphModel).kind = "error"
    /\ (m.graphModel # Nil /\ m.graphModel.err)
            => GraphView(m.graphModel).kind = "error"
    /\ (topo # Nil /\ ~topo.loading /\ result.err # "")
            => (topo.err = result.err /\ TopologyView(topo).kind = "error")

\* C17: a port column of n > 8 items holds the first 7 item boxes and one
\* "+(n-7) more" box, and a column of n <= 8 items holds all n boxes and no
\* "+N more" box: the port column of the server graph and the port column
\* of the network graph.
OverflowColumn(n) ==
    IF n > 8 THEN [ports |-> 7, more |-> n - 7] ELSE [ports |-> n, more |-> 0]

C17_OverflowCap ==
    /\ (build.done /\ build.in.model = "ServerGraphModel" /\ ~build.out.err)
            => [ports |-> build.out.content.ports, more |-> build.out.content.more]
                    = OverflowColumn(build.in.ifaces)
    /\ (build.done /\ build.in.model = "GraphModel" /\ build.in.rt = "network"
        /\ build.in.ports # Err)
            => [ports |-> build.out.content.ports, more |-> build.out.content.more]
                    = OverflowColumn(build.in.ports)

\* C18: the server graph is stacked exactly when the width of its
\* horizontal layout, as drawn (the server box and, for each column that
\* is not empty, the separator and the widest box), exceeds the width of
\* the viewport.
HorizontalWidth(in, boxes) ==
    in.centerW
    + (IF boxes.ports > 0 THEN SeparatorWidth + in.boxW ELSE 0)
    + (IF boxes.nets > 0 THEN SeparatorWidth + in.boxW ELSE 0)
    + (IF boxes.fips > 0 THEN SeparatorWidth + in.boxW ELSE 0)

C18_StackingThreshold ==
    (build.done /\ build.in.model = "ServerGraphModel" /\ ~build.out.err)
        => (build.out.content.stacked
                <=> HorizontalWidth(build.in, build.out.content) > DefaultViewportWidth)

\* C19: for fixed fetched data, two runs of the topology renderer produce
\* the same output, also when two networks or two servers of one network
\* have the same display name.
C19_RendererDeterministic ==
    \A i, j \in 1..Len(tree.out) : tree.out[i] = tree.out[j]

\* Ascending display name, and ascending id among equal display names.
NameThenId(s) ==
    \A i, j \in 1..Len(s) :
        i < j => \/ s[i].name < s[j].name
                 \/ s[i].name = s[j].name /\ s[i].id < s[j].id

\* C20: within every level of the rendered tree (the networks, the servers
\* of a network, the routers of a network) the items appear in ascending
\* display-name order and items with equal names in ascending id order.
C20_SortedByNameThenId ==
    \A i \in 1..Len(tree.out) :
        /\ NameThenId(tree.out[i].nets)
        /\ NameThenId(tree.out[i].srvs)
        /\ NameThenId(tree.out[i].routers)

\* C21: at every nesting level of the topology tree the last line under
\* its parent carries the closing connector and every earlier sibling the
\* continuing one; among the lines directly under a server (its ports, then
\* its volumes) exactly the final one carries the closing connector.
LastSibling(lines, i) ==
    ~\E j \in (i + 1)..Len(lines) :
        /\ lines[j].depth = lines[i].depth
        /\ \A k \in (i + 1)..j : lines[k].depth >= lines[i].depth

C21_LastChildConnectors ==
    \A r \in 1..Len(tree.out) :
        LET lines == tree.out[r].lines
        IN \A i \in 1..Len(lines) :
              lines[i].depth > 0 => (lines[i].closing <=> LastSibling(lines, i))

\* C22: the output ends with the section of the unattached resources
\* exactly when a floating IP has no port or a volume has no attachment,
\* and the section lists them all; with two networks, one server on each,
\* no floating IP and no volume the output is the two network headers in
\* name order, each followed by one server line, and no such section.
TopLines(lines) == SelectSeq(lines, LAMBDA l : l.depth <= 1)

NetName(in, id) ==
    (CHOOSE x \in {in.nets[i] : i \in 1..Len(in.nets)} : x.id = id).name

C22_UnattachedSection ==
    \A r \in 1..Len(tree.out) :
        LET in == tree.in
            lines == tree.out[r].lines
            n == Len(lines)
            k == in.ufips + in.uvols
        IN /\ (\E i \in 1..n : lines[i].kind = "unattached")
                <=> (in.ufips > 0 \/ in.uvols > 0)
           /\ k > 0 =>
                /\ n > k
                /\ lines[n - k].kind = "unattached"
                /\ \A i \in 1..n : lines[i].kind \in {"unattached", "ufip", "uvol"}
                                      <=> i >= n - k
           /\ (/\ Len(in.nets) = 2 /\ Cardinality(in.srvs) = 1
               /\ in.routers = <<>> /\ in.vols = 0 /\ k = 0
               /\ \A p \in 1..Len(in.ports) : in.ports[p] = 0)
                => /\ Len(TopLines(lines)) = 4
                   /\ [i \in 1..4 |-> TopLines(lines)[i].kind]
                        = <<"net", "srv", "net", "srv">>
                   /\ {TopLines(lines)[1].id, TopLines(lines)[3].id}
                        = {in.nets[1].id, in.nets[2].id}
                   /\ NetName(in, TopLines(lines)[1].id)
                        <= NetName(in, TopLines(lines)[3].id)

C22_Witness ==
    /\ Len(tree.out) > 0
    /\ Len(tree.in.nets) = 2
    /\ Cardinality(tree.in.srvs) = 1
    /\ tree.in.ports # <<>>
    /\ tree.in.ufips = 0 /\ tree.in.uvols = 0
    /\ Len(tree.out[1].lines) > 4

\* C23: in the detail state g on a loaded detail child of a graph-eligible
\* kind (server, network, volume, floating IP, load balancer) opens the
\* graph of that resource, with its ID and its name, and issues the graph
\* fetch; on a child of another kind the state stays detail and no graph is
\* created.
GraphEligible ==
    {"InstanceDetailModel", "NetworkSubnetsModel", "VolumeDetailModel",
     "FloatingIPDetailModel", "LoadBalancerDetailModel"}

C23_GraphOfFocalResource ==
    [][(/\ m.state = stateDetail
        /\ m.detailModel # Nil
        /\ ~m.detailModel.showGraph
        /\ ~m.detailModel.loading /\ ~m.detailModel.err
        /\ PressedKey("g"))
            => LET d == m.detailModel
               IN IF d.kind \in GraphEligible
                  THEN \/ /\ d.kind # "InstanceDetailModel"
                          /\ m'.state = stateGraph
                          /\ m'.graphModel = NewGraphModel(GraphType(d.kind), d.id, "name")
                          /\ BagIn([type |-> "graph", kind |-> GraphType(d.kind),
                                    id |-> d.id, stale |-> FALSE], inflight')
                       \/ /\ d.kind = "InstanceDetailModel"
                          /\ m'.state = stateDetail
                          /\ m'.detailModel.showGraph
                          /\ m'.detailModel.graphModel = NewServerGraphModel(d.id, "name")
                          /\ BagIn([type |-> "sgraph", kind |-> "server",
                                    id |-> d.id, stale |-> FALSE], inflight')
                  ELSE /\ m'.state = stateDetail
                       /\ m'.graphModel = m.graphModel
                       /\ m'.detailModel = m.detailModel
                       /\ inflight' = inflight]_vars

\* C24: in the sidebar state Enter on an entry that names a resource kind
\* (every entry but the section headers and Exit) leads to the list state
\* with a new list child of that entry and issues its load; the list state
\* is never entered with no child.
ResourceEntries == SidebarItems \ {"=== COMPUTE ===", "Exit"}

C24_SidebarOpensList ==
    [][/\ (m.state = stateSidebar /\ PressedKey("enter")
           /\ last'.sel \in ResourceEntries)
            => /\ m'.state = stateMain
               /\ m'.mainModel = NewListModel(last'.sel)
               /\ BagIn([type |-> "list", kind |-> last'.sel, id |-> 0,
                         stale |-> FALSE], inflight')
       /\ (m.state # stateMain /\ m'.state = stateMain) => m'.mainModel # Nil]_vars

\* C25: the topology view is reachable from the sidebar: after T is pressed
\* in the sidebar state a TopologyModel is the child of the app and the
\* command of its Init, which runs the seven-way fetch, has been issued.
C25_TopologyReachable ==
    [][(m.state = stateSidebar /\ PressedKey("T"))
            => /\ \E c \in {"mainModel", "detailModel", "graphModel", "logsModel",
                            "shellModel"} : m'[c].type = "topology"
               /\ \E x \in BagToSet(inflight') : x.type = "topology"]_vars

\* C26 as the spec has it: c enters the cloud selection from every state,
\* and there Enter on a cloud and Esc both lead to the sidebar state.
C26_CloudSelect ==
    [][/\ PressedKey("c") => m'.state = stateCloudSelect
       /\ (m.state = stateCloudSelect /\ PressedKey("enter") /\ m.cloudList = "items")
            => m'.state = stateSidebar
       /\ (m.state = stateCloudSelect /\ PressedKey("esc"))
            => m'.state = stateSidebar]_vars

\* C26, amended: c enters the cloud selection from every state when the
\* clouds file loads and changes nothing when it does not; in the cloud
\* selection Enter on a cloud and Esc both lead to the sidebar state.
C26_CloudSelectWhenLoaded ==
    [][/\ (PressedKey("c") /\ last'.ok)
            => (m'.state = stateCloudSelect /\ m'.cloudList \in {"empty", "items"})
       /\ (PressedKey("c") /\ ~last'.ok) => m' = m
       /\ (m.state = stateCloudSelect /\ PressedKey("enter") /\ m.cloudList = "items")
            => m'.state = stateSidebar
       /\ (m.state = stateCloudSelect /\ PressedKey("esc"))
            => m'.state = stateSidebar]_vars

C26_Witness ==
    /\ run = "running"
    /\ m.state = stateSidebar
    /\ last.kind = "key" /\ last.name = "enter"
    /\ m.cloudList = "items"
    /\ m.detailModel # Nil

\* C27: there is no automatic retry: an event that is not a key press (the
\* completion of a load, failed or not, another message, a resize) issues
\* no fetch, so after a load has failed a fetch for the same resource is
\* issued only by a key press.
FetchTypes == {"list", "detail", "graph", "sgraph", "logs", "shell"}

FetchCount(B) ==
    BagCardinality([x \in {y \in BagToSet(B) : y.type \in FetchTypes} |-> B[x]])

CallSet(calls) == {calls[i] : i \in 1..Len(calls)}

C28_RelevantSubFetches ==
    (build.done /\ build.in.model = "GraphModel")
        => /\ build.in.rt = "floatingip" => build.out.calls = <<>>
           /\ build.in.rt = "network"
                => CallSet(build.out.calls) = {"ListPortsByNetwork", "ListSubnets"}
           /\ (build.in.rt = "volume" /\ build.in.vol # Err)
                => build.out.calls
                     = <<"GetVolume">> \o Repeat("GetInstance", build.in.vol)
           /\ (build.in.rt = "loadbalancer" /\ build.in.hasLB)
                => CallSet(build.out.calls) = {"ListListeners", "ListPools"}

\* C29: within one build the sub-fetches that do not depend on one another
\* (for a server the interfaces, the volumes and the floating IPs, for a
\* load balancer the listeners and the pools) do not wait for one another:
\* while one of them is in flight, another one the build has yet to issue
\* can be issued.
Independent ==
    {{"ListServerInterfaces", "ListServerVolumes", "ListFloatingIPs"},
     {"ListListeners", "ListPools"}}

Issued == {Calls[i] : i \in 1..build.pc}

C29_IndependentFetchesConcurrent ==
    \A S \in Independent : \A a, b \in S :
        (a \in build.flight /\ b \in CallSet(Calls) \ Issued)
            => ENABLED IssueCall(b)

\* C30: while a server detail is showing its graph, g closes the graph: the
\* GoBackMsg that the g key makes ServerGraphModel emit, once delivered,
\* leaves the server detail with showGraph false and no graph model.
ShowingServerGraph ==
    /\ m.state = stateDetail
    /\ m.detailModel # Nil
    /\ m.detailModel.kind = "InstanceDetailModel"
    /\ m.detailModel.showGraph
    /\ m.detailModel.graphModel # Nil

C30_GKeyClosesServerGraph ==
    [][(ShowingServerGraph /\ Delivered("GoBackMsg"))
            => /\ m'.detailModel # Nil
               /\ ~m'.detailModel.showGraph
               /\ m'.detailModel.graphModel = Nil]_vars

\* C31: a debounce message whose query differs from the text in the input
\* starts no search and changes no field of the SearchModel; a search is
\* started by a debounce message only when its query is the current input.
SearchesIn(B) ==
    BagCardinality([x \in {y \in BagToSet(B) : y.type = "searchCmd"} |-> B[x]])

DebounceArrived == search'.last.kind = "msg" /\ search'.last.type = "searchQueryMsg"

C31_DebounceOnlyCurrentQuery ==
    [][DebounceArrived
          => IF search'.last.query = search.m.input
             THEN /\ SearchesIn(search'.flight) = SearchesIn(search.flight) + 1
                  /\ search'.m = [search.m EXCEPT !.query = search.m.input]
             ELSE /\ SearchesIn(search'.flight) = SearchesIn(search.flight)
                  /\ search'.m = search.m]_vars

C31_Witness ==
    /\ search.last.kind = "msg"
    /\ search.last.type = "searchQueryMsg"
    /\ search.last.query # search.m.input
    /\ search.m.loading

\* C38: the results on show match the latest query: whenever the
\* SearchModel is not loading, its results are those of the search that was
\* started for the text now in the input.
C38_ResultsMatchLatestQuery ==
    ~search.m.loading => search.shown = search.m.input

\* C32: Tab completion.  A Tab pressed while the bar does not hold the
\* current suggestion starts a cycle: the suggestions become all command
\* names with the text of the bar as prefix, in ascending order, and the bar
\* shows the first.  Every further Tab shows the next suggestion, the first
\* again after the last.  Tab with no matching command changes nothing, and
\* tabIndex is always a valid index of tabMatches.
TabInCommand == PressedKey("tab") /\ m.state = stateCommand

HoldsSuggestion(mm) ==
    mm.tabMatches # <<>> /\ mm.commandBar = mm.tabMatches[mm.tabIndex + 1]

\* tabIndex is a valid index of tabMatches (0 while there is no suggestion),
\* and tabMatches is in ascending order without repetition.
TabIndexValid(mm) ==
    /\ mm.tabIndex >= 0
    /\ mm.tabMatches = <<>> => mm.tabIndex = 0
    /\ mm.tabMatches # <<>> => mm.tabIndex < Len(mm.tabMatches)
    /\ \A i, j \in 1..Len(mm.tabMatches) :
           i < j => \E a, b \in 1..Len(SortedCommands) :
                       /\ a < b
                       /\ SortedCommands[a] = mm.tabMatches[i]
                       /\ SortedCommands[b] = mm.tabMatches[j]

C33_GetReturnsLastSet ==
    [][\A t \in CacheThreads :
          (cache.calls[t] # Nil /\ cache.calls[t].op = "Get" /\ cache'.calls[t] = Nil)
             => LET call == cache.calls[t]
                    live == call.truth # Nil /\ ~Expired(call.truth, cache.now)
                IN /\ cache'.ret.ok = live
                   /\ cache'.ret.value = IF live THEN call.truth.value ELSE "nil"
                   /\ (call.entry # Nil /\ Expired(call.entry, cache.now))
                         => cache'.c.items[makeKey(call.resource, call.key)] = Nil]_vars

\* C39: once a Set has returned, a Get that is made afterwards and within
\* the TTL returns the stored value, whatever a concurrent Get that read
\* the expired entry before the Set does.
C39_GetAfterSetHits ==
    [][\A t \in CacheThreads :
          (/\ cache.calls[t] # Nil
           /\ cache.calls[t].op = "Get"
           /\ cache.calls[t].truth # Nil
           /\ ~Expired(cache.calls[t].truth, cache.now)
           /\ cache'.calls[t] = Nil)
             => /\ cache'.ret.ok
                /\ cache'.ret.value = cache.calls[t].truth.value]_vars

\* C34: the completion of the active child's load is not lost: while the
\* child of the current state is loading, the command of its load is still
\* running, also when an overlay (Help, Command, CloudSelect) has been open
\* over the child in between.
ActiveChild ==
    CASE m.state = stateMain -> m.mainModel
      [] m.state = stateDetail -> m.detailModel
      [] m.state = stateGraph -> m.graphModel
      [] OTHER -> Nil

Pending(type) == \E x \in BagToSet(inflight) : x.type = type /\ ~x.stale

C34_CompletionNotLost ==
    (run = "running" /\ ActiveChild # Nil /\ ActiveChild.loading)
        => Pending(ActiveChild.type)

\* C35: buildTopology returns once its seven provider calls have returned,
\* whichever of them fail: a goroutine whose call has returned is never
\* blocked (its send on the error channel finds room), the wait group
\* counts the goroutines still running, the wait ends when all are done,
\* and at the return no goroutine is running.
GoroutineRunning(f) == fetches[f].pc # "done"

C35_BuildTopologyReturns ==
    topo # Nil
        => /\ \A f \in Fetches : fetches[f].pc = "returned" => ENABLED FetchExit(f)
           /\ wg = Cardinality({f \in Fetches : GoroutineRunning(f)})
           /\ (~result.returned /\ \A f \in Fetches : ~GoroutineRunning(f)) => ENABLED Join
           /\ result.returned => \A f \in Fetches : ~GoroutineRunning(f)

\* All seven calls have failed and buildTopology has returned.
C35_Witness ==
    /\ result.returned
    /\ Len(errChan) = NumFetches

\* C36: every port line under the header of a network is a port of that
\* network.
DrawnLines == IF tree.out = <<>> THEN <<>> ELSE tree.out[1]

LinesOf(kind) == {DrawnLines[i] : i \in {j \in 1..Len(DrawnLines) : DrawnLines[j].kind = kind}}

C36_PortsUnderOwnNetwork ==
    ("portList" \in DOMAIN tree.in)
        => \A l \in LinesOf("port") : l.portNet = l.net

\* C37: every server line is a server of the fetched server list.
C37_ServerLinesAreServers ==
    ("srvList" \in DOMAIN tree.in)
        => \A l \in LinesOf("srv") : l.dev \in tree.in.srvList

\* ServerGraphModel.buildGraph has drawn the graph of a server.
ServerGraphBuilt ==
    build.done /\ build.in.model = "ServerGraphModel" /\ ~build.out.err

\* C40: whenever the port column of the server graph is truncated, the
\* number of port boxes shown plus the number N of the "+N more" box is the
\* number of the server's ports.
C40_OverflowConservation ==
    (ServerGraphBuilt /\ build.out.content.more > 0)
        => build.out.content.ports + build.out.content.more = build.in.ifaces

C40_Witness ==
    /\ ServerGraphBuilt
    /\ build.in.ifaces = 12
    /\ build.out.content.more = 4

\* The graph case of C1: the graphDataMsg of a closed GraphModel reaches
\* the GraphModel of another resource.
StaleGraphDataReachesOtherGraph ==
    /\ last.kind = "msg" /\ last.name = "graph" /\ last.stale
    /\ m.state = stateGraph
    /\ m.graphModel # Nil
    /\ ~m.graphModel.loading
    /\ m.graphModel.content # <<m.graphModel.rt, m.graphModel.id>>

====
